---- MODULE Spec2Model ----
(***************************************************************************)
(* A model of the NetReveal Playwright test suite: the helper functions    *)
(* (retry, waitForElement, safeClick, elementExists), the LoginPage and    *)
(* WatchlistManagerPage page objects and the agency-rule test that drives  *)
(* them.                                                                   *)
(*                                                                         *)
(* The suite is one sequential thread of async calls, so the model is one  *)
(* program counter (pc), a stack of return labels, the exception in flight *)
(* (exc) and the last returned value (ret).  Every Playwright primitive    *)
(* (goto, waitFor, click, count, title, ...) is an environment step: on a  *)
(* page served by the real application its outcome is a free choice, on a  *)
(* page fabricated with page.setContent it is decided by the fabricated    *)
(* HTML.  Texts (titles, URLs, error messages) are sequences of tokens and *)
(* String.includes is the contiguous-subsequence test on them.             *)
(***************************************************************************)
EXTENDS Integers, Sequences, FiniteSets, TLC

VARIABLES
  pc,          \* label of the statement about to run
  stack,       \* return labels of the callers, innermost first
  exc,         \* the exception in flight (None when there is none)
  ret,         \* value of the last call that returned
  page,        \* the browser page: [kind, title, url, dom]
  target,      \* the Locator argument of waitForElement / safeClick / elementExists
  maxRetries,  \* retry: parameter
  delayMs,     \* retry: parameter
  opKind,      \* retry: which closure was passed as `operation`
  attempt,     \* retry: loop counter
  lastError,   \* retry: local
  outcomes,    \* history: how each invocation of `operation` settled, in order
  pauses,      \* history: the delay of every setTimeout pause retry slept, in order
  trace,       \* history: events of the current retry call, in order
  faults,      \* history: the steps that failed since the caller started
  lastFault,   \* history: the last error a Playwright primitive raised
  mcpConnected,  \* test module: let mcpConnected
  lastSnapshot,  \* test module: let lastSnapshot
  isVisible,     \* performEnhancedAgencyRuleAssertion: let isVisible
  assertError,   \* performEnhancedAgencyRuleAssertion: let lastError
  step,          \* navigation sequence: number of the step in progress
  seqKind,       \* navigation sequence: which of the two methods is running
  clicked,       \* history: the locators whose click succeeded, in order
  steps,         \* history: the steps of the navigation sequence started, in order
  testStep,      \* the test body: number of the statement in progress
  testKind,      \* which test of the suite is running
  timer,         \* Strategy 3: the pending setTimeout callback in the page (0: none)
  domClicked,    \* history: the elements clicked by script inside the page
  overlaps,      \* history: <<page call in progress, callback that ran during it>>
  strategy,      \* StandardListPage: number (i + 1) of the click strategy in progress
  success,       \* StandardListPage: let success
  tried,         \* history: how each strategy of the current loop ended, in order
  expandAttempt, \* StandardListPage.navigateToLists: attempt of its own retry call
  expandError    \* StandardListPage.navigateToLists: lastError of its own retry call

ctl   == <<pc, stack, exc, ret>>
rvars == <<maxRetries, delayMs, opKind, attempt, lastError>>
hvars == <<outcomes, pauses, trace>>
fvars == <<faults, lastFault>>
gvars == <<mcpConnected, lastSnapshot, isVisible, assertError, testStep, testKind>>
nvars == <<step, seqKind, clicked, steps>>
bvars == <<timer, domClicked, overlaps, strategy, success, tried, expandAttempt,
           expandError>>
vars  == <<pc, stack, exc, ret, page, target, maxRetries, delayMs, opKind,
           attempt, lastError, outcomes, pauses, trace, faults, lastFault,
           mcpConnected, lastSnapshot, isVisible, assertError,
           step, seqKind, clicked, steps, testStep, testKind, timer, domClicked,
           overlaps, strategy, success, tried, expandAttempt, expandError>>

----------------------------------------------------------------------------
(* Bounds of the model and constants of the program *)

MaxRetriesIn == 4        \* largest maxRetries a caller of retry passes in SpecRetry

MaxTree == 2             \* most elements in a snapshot given to getMcpSelector
DefaultMaxRetries == 3   \* retry(operation, maxRetries = 3, ...)
DefaultDelayMs == 1000   \* retry(..., delayMs = 1000)

Delays == {0, DefaultDelayMs}

----------------------------------------------------------------------------
(* Texts and errors *)

Digits == <<"0", "1", "2", "3", "4", "5", "6", "7", "8", "9">>

\* `${n}` for a small number
NumStr(n) == Digits[n + 1]

\* s.includes(sub) on token sequences
Includes(s, sub) ==
  \E i \in 0..(Len(s) - Len(sub)) : SubSeq(s, i + 1, i + Len(sub)) = sub

\* no exception in flight / the value undefined
None == [name |-> "none", message |-> <<>>]

\* new Error(msg)
NewError(msg) == [name |-> "Error:", message |-> msg]

\* `${error}`: "<name>: <message>", or "undefined"
ErrToString(e) == IF e = None THEN <<"undefined">> ELSE <<e.name>> \o e.message

\* the errors Playwright raises
PwTimeout == [name |-> "TimeoutError:", message |-> <<"Timeout exceeded">>]
PwClosed  == [name |-> "Error:", message |-> <<"Target closed">>]

----------------------------------------------------------------------------
(* Calls *)

Call(entry, retLabel) == pc' = entry /\ stack' = <<retLabel>> \o stack

Return == pc' = Head(stack) /\ stack' = Tail(stack)

----------------------------------------------------------------------------
(* The page and the Playwright primitives *)

\* the page fabricated by navigateToLoginPage when goto fails
MockLoginDom == {"usernameInput", "passwordInput", "loginButton",
                 "h1TestMode", "pMockMode"}

\* the dashboard fabricated by login
MockDashboardDom == {"mainMenuButton", "watchlistManagerMenu", "listsMenu",
                     "standard_lists", "eu_list_item", "eu_name_container",
                     "h1MockDashboard", "pMockMode", "textEUList"}

\* Is the element there (attached and visible)?  Decided by the HTML on a
\* fabricated page, free on a page of the real application.
Present(pg, el) == IF pg.kind = "static" THEN {el \in pg.dom} ELSE BOOLEAN

----------------------------------------------------------------------------
(* utils/helpers: waitForElement *)

WaitForElement ==
  /\ pc = "waitForElement"
  /\ \E ok \in Present(page, target) :
       /\ exc' = IF ok THEN None
                 ELSE NewError(<<"Element wait timed out:">> \o ErrToString(PwTimeout))
       /\ trace' = Append(trace, IF ok THEN "waitOk" ELSE "waitFail")
       /\ lastFault' = IF ok THEN lastFault ELSE PwTimeout
  /\ ret' = "void"
  /\ Return
  /\ UNCHANGED <<page, target, rvars, outcomes, pauses, faults, gvars, nvars, bvars>>

----------------------------------------------------------------------------
(* utils/helpers: retry *)

\* for (...; attempt <= maxRetries; ...)
LoopGuard(a, m) == a <= m

\* if (attempt < maxRetries) await setTimeout(delayMs)
ShouldPause(a, m) == a < m

\* the delay of the pause after attempt a
PauseDelayBackoff(a, d) == d * a
PauseDelay(a, d) == d

\* lastError = error
CaughtErrorKeepFirst(prev, e) == IF prev = None THEN e ELSE prev
CaughtError(prev, e) == e

\* `Operation failed after ${maxRetries} attempts. Last error: ${lastError}`
RetryFailureMessage(m, e) ==
  <<"Operation failed after", NumStr(m), "attempts. Last error:">> \o ErrToString(e)

OpEntry(kind) ==
  CASE kind = "generic"   -> "op_generic"
    [] kind = "waitClick" -> "op_waitClick"
    [] kind = "visible"   -> "op_visible"
    [] kind = "expandWatchlistManager" -> "op_expandWatchlistManager"

\* let lastError; attempt = 1
RetryEnterFromZero ==
  /\ pc = "retry"
  /\ attempt' = 0
  /\ lastError' = None
  /\ outcomes' = <<>> /\ pauses' = <<>> /\ trace' = <<>>
  /\ pc' = "retry_loop"
  /\ UNCHANGED <<stack, exc, ret, page, target, maxRetries, delayMs, opKind, fvars, gvars, nvars, bvars>>
RetryEnter ==
  /\ pc = "retry"
  /\ attempt' = 1
  /\ lastError' = None
  /\ outcomes' = <<>> /\ pauses' = <<>> /\ trace' = <<>>
  /\ pc' = "retry_loop"
  /\ UNCHANGED <<stack, exc, ret, page, target, maxRetries, delayMs, opKind, fvars, gvars, nvars, bvars>>

\* attempt <= maxRetries: try { return await operation()
RetryInvoke ==
  /\ pc = "retry_loop"
  /\ LoopGuard(attempt, maxRetries)
  /\ Call(OpEntry(opKind), "retry_settled")
  /\ UNCHANGED <<exc, ret, page, target, rvars, hvars, fvars, gvars, nvars, bvars>>

\* operation() settled: return its value, or catch its error
RetrySettledMissingReturn ==
  /\ pc = "retry_settled"
  /\ IF exc = None
       THEN /\ attempt' = attempt + 1
            /\ pc' = "retry_loop"
            /\ UNCHANGED <<stack, exc, lastError>>
       ELSE /\ lastError' = CaughtError(lastError, exc)
            /\ exc' = None
            /\ IF ShouldPause(attempt, maxRetries)
                 THEN pc' = "retry_pause" /\ UNCHANGED attempt
                 ELSE pc' = "retry_loop" /\ attempt' = attempt + 1
            /\ UNCHANGED stack
  /\ UNCHANGED <<ret, page, target, maxRetries, delayMs, opKind, hvars, fvars, gvars, nvars, bvars>>
RetrySettled ==
  /\ pc = "retry_settled"
  /\ IF exc = None
       THEN /\ Return
            /\ UNCHANGED <<exc, attempt, lastError>>
       ELSE /\ lastError' = CaughtError(lastError, exc)
            /\ exc' = None
            /\ IF ShouldPause(attempt, maxRetries)
                 THEN pc' = "retry_pause" /\ UNCHANGED attempt
                 ELSE pc' = "retry_loop" /\ attempt' = attempt + 1
            /\ UNCHANGED stack
  /\ UNCHANGED <<ret, page, target, maxRetries, delayMs, opKind, hvars, fvars, gvars, nvars, bvars>>

\* await new Promise(resolve => setTimeout(resolve, delayMs)); attempt++
RetryPause ==
  /\ pc = "retry_pause"
  /\ pauses' = Append(pauses, PauseDelay(attempt, delayMs))
  /\ trace' = Append(trace, "pause")
  /\ attempt' = attempt + 1
  /\ pc' = "retry_loop"
  /\ UNCHANGED <<stack, exc, ret, page, target, maxRetries, delayMs, opKind,
                 lastError, outcomes, fvars, gvars, nvars, bvars>>

\* loop left: throw new Error(`Operation failed after ...`)
RetryThrow ==
  /\ pc = "retry_loop"
  /\ ~LoopGuard(attempt, maxRetries)
  /\ exc' = NewError(RetryFailureMessage(maxRetries, lastError))
  /\ Return
  /\ UNCHANGED <<ret, page, target, rvars, hvars, fvars, gvars, nvars, bvars>>

----------------------------------------------------------------------------
(* An arbitrary operation passed to retry: each invocation resolves with a *)
(* value or rejects with an error, as the environment decides.             *)

OpValues == {"v1", "v2"}
OpErrors == {NewError(<<"e1">>), NewError(<<"e2">>)}

Settled(ok, v, e) == [ok |-> ok, val |-> v, err |-> e]

OpGeneric ==
  /\ pc = "op_generic"
  /\ \/ \E v \in OpValues :
          /\ ret' = v /\ exc' = None
          /\ outcomes' = Append(outcomes, Settled(TRUE, v, None))
          /\ trace' = trace \o <<"invoke", "ok">>
     \/ \E e \in OpErrors :
          /\ ret' = "void" /\ exc' = e
          /\ outcomes' = Append(outcomes, Settled(FALSE, "void", e))
          /\ trace' = trace \o <<"invoke", "fail">>
  /\ Return
  /\ UNCHANGED <<page, target, rvars, pauses, fvars, gvars, nvars, bvars>>

----------------------------------------------------------------------------
(* utils/helpers: safeClick *)

\* await retry(async () => {...})  with the default maxRetries and delayMs
SafeClick ==
  /\ pc = "safeClick"
  /\ maxRetries' = DefaultMaxRetries
  /\ delayMs' = DefaultDelayMs
  /\ opKind' = "waitClick"
  /\ Call("retry", "safeClick_end")
  /\ UNCHANGED <<exc, ret, page, target, attempt, lastError, hvars, fvars, gvars, nvars, bvars>>

\* the closure: await waitForElement(locator, timeout)
SafeClickOpWait ==
  /\ pc = "op_waitClick"
  /\ trace' = Append(trace, "invoke")
  /\ Call("waitForElement", "op_click")
  /\ UNCHANGED <<exc, ret, page, target, rvars, outcomes, pauses, fvars, gvars, nvars, bvars>>

\* the closure: await locator.click(...), reached only if the wait resolved
SafeClickOpClickUnguarded ==
  /\ pc = "op_click"
  /\ \E ok \in Present(page, target) :
       LET e == IF ok THEN None ELSE PwTimeout IN
       /\ exc' = e
       /\ outcomes' = Append(outcomes, Settled(ok, "void", e))
       /\ trace' = trace \o <<IF ok THEN "clickOk" ELSE "clickFail",
                              IF ok THEN "ok" ELSE "fail">>
       /\ lastFault' = IF ok THEN lastFault ELSE PwTimeout
       /\ clicked' = IF ok THEN Append(clicked, target) ELSE clicked
  /\ ret' = "void"
  /\ Return
  /\ UNCHANGED <<page, target, rvars, pauses, faults, gvars, step, seqKind, steps, bvars>>
SafeClickOpClick ==
  /\ pc = "op_click"
  /\ IF exc # None
       THEN /\ outcomes' = Append(outcomes, Settled(FALSE, "void", exc))
            /\ trace' = Append(trace, "fail")
            /\ UNCHANGED <<exc, lastFault, clicked>>
       ELSE \E ok \in Present(page, target) :
              LET e == IF ok THEN None ELSE PwTimeout IN
              /\ exc' = e
              /\ outcomes' = Append(outcomes, Settled(ok, "void", e))
              /\ trace' = trace \o <<IF ok THEN "clickOk" ELSE "clickFail",
                                     IF ok THEN "ok" ELSE "fail">>
              /\ lastFault' = IF ok THEN lastFault ELSE PwTimeout
              /\ clicked' = IF ok THEN Append(clicked, target) ELSE clicked
  /\ ret' = "void"
  /\ Return
  /\ UNCHANGED <<page, target, rvars, pauses, faults, gvars, step, seqKind, steps, bvars>>

\* retry settled: safeClick resolves, or rejects with retry's error
SafeClickEnd ==
  /\ pc = "safeClick_end"
  /\ ret' = "void"
  /\ Return
  /\ UNCHANGED <<exc, page, target, rvars, hvars, fvars, gvars, nvars, bvars>>

----------------------------------------------------------------------------
(* A caller of the helpers: one call of retry with an arbitrary operation, *)
(* or one call of safeClick on a locator of the page.                      *)

RealPage == [kind |-> "real", title |-> <<"NetReveal">>,
             url |-> <<"https://10.222", ".2.239:8443/", "netreveal", "/login.do">>,
             dom |-> {}]
MockLoginPage == [kind |-> "static", title |-> <<"NetReveal", "Test", "Mode">>,
                  url |-> <<"about:blank">>, dom |-> MockLoginDom]
MockDashboardPage == [kind |-> "static", title |-> <<"NetReveal", "Dashboard">>,
                      url |-> <<"about:blank">>, dom |-> MockDashboardDom]

HelperTargets == {"loginButton", "synonymsMenu"}

CallRetry ==
  /\ pc = "main"
  /\ \E m \in 0..MaxRetriesIn, d \in Delays :
       maxRetries' = m /\ delayMs' = d
  /\ opKind' = "generic"
  /\ Call("retry", "main_end")
  /\ UNCHANGED <<exc, ret, page, target, attempt, lastError, hvars, fvars, gvars, nvars, bvars>>

CallSafeClick ==
  /\ pc = "main"
  /\ \E t \in HelperTargets : target' = t
  /\ Call("safeClick", "main_end")
  /\ UNCHANGED <<exc, ret, page, rvars, hvars, fvars, gvars, nvars, bvars>>

InitCommon ==
  /\ stack = <<>> /\ exc = None /\ ret = "void"
  /\ target = "loginButton"
  /\ maxRetries = DefaultMaxRetries /\ delayMs = DefaultDelayMs
  /\ opKind = "generic" /\ attempt = 1 /\ lastError = None
  /\ outcomes = <<>> /\ pauses = <<>> /\ trace = <<>>
  /\ faults = {} /\ lastFault = None
  /\ mcpConnected = FALSE /\ lastSnapshot = "null"
  /\ isVisible = FALSE /\ assertError = None
  /\ step = 0 /\ seqKind = "none" /\ clicked = <<>> /\ steps = <<>>
  /\ testStep = 0
  /\ timer = 0 /\ domClicked = <<>> /\ overlaps = {}
  /\ strategy = 0 /\ success = FALSE /\ tried = <<>>
  /\ expandAttempt = 0 /\ expandError = None

InitRetry ==
  /\ pc = "main"
  /\ testKind = "none"
  /\ page \in {RealPage, MockLoginPage, MockDashboardPage}
  /\ InitCommon

NextRetry ==
  \/ CallRetry \/ CallSafeClick
  \/ RetryEnter \/ RetryInvoke \/ RetrySettled \/ RetryPause \/ RetryThrow
  \/ OpGeneric
  \/ SafeClick \/ SafeClickOpWait \/ WaitForElement \/ SafeClickOpClick
  \/ SafeClickEnd

SpecRetry == InitRetry /\ [][NextRetry]_vars

\* every awaited promise of retry settles: the operation is assumed to
\* terminate, the setTimeout of the pause fires, and the event loop runs the
\* continuation
SpecRetryFair == SpecRetry /\ WF_vars(NextRetry)

----------------------------------------------------------------------------
(* pages/login/LoginPage *)

\* the page before the first navigation
BlankPage == [kind |-> "static", title |-> <<>>, url |-> <<"about:blank">>, dom |-> {}]

\* what page.url() may be after a goto that failed
FailedGotoUrls == {<<"about:blank">>, <<"chrome-error://chromewebdata/">>, RealPage.url}

\* page.setContent(html): the document is replaced, the URL stays
SetContent(pg, title, dom) ==
  [kind |-> "static", title |-> title, url |-> pg.url, dom |-> dom]

\* throw new Error(`<prefix> ${error}`)
WrapDropCause(prefix, e) == NewError(<<prefix>>)
Wrap(prefix, e) == NewError(<<prefix>> \o ErrToString(e))

\* navigateToLoginPage: page.goto, and the fabricated page when it fails
NavigateToLoginPageGoto ==
  /\ pc = "navigateToLoginPage"
  /\ \/ /\ page' = RealPage
        /\ pc' = "navigateToLoginPage_checks"
        /\ UNCHANGED <<exc, fvars>>
     \/ \E u \in FailedGotoUrls, sc \in BOOLEAN :
          LET failed == [BlankPage EXCEPT !.url = u] IN
          /\ faults' = faults \cup {"goto"} \cup (IF sc THEN {} ELSE {"setContent"})
          /\ lastFault' = IF sc THEN PwTimeout ELSE PwClosed
          /\ IF sc
               THEN /\ page' = SetContent(failed, MockLoginPage.title, MockLoginDom)
                    /\ pc' = "navigateToLoginPage_checks"
                    /\ UNCHANGED exc
               ELSE /\ page' = failed
                    /\ exc' = PwClosed
                    /\ pc' = "navigateToLoginPage_catch"
  /\ UNCHANGED <<stack, ret, target, rvars, hvars, gvars, nvars, bvars>>

\* navigateToLoginPage: maximizeWindow, the debugging queries, the username check
NavigateToLoginPageChecks ==
  /\ pc = "navigateToLoginPage_checks"
  /\ \/ \E f \in {"maximizeWindow", "title", "count", "buttons"} :
          /\ faults' = faults \cup {f}
          /\ lastFault' = PwClosed
          /\ exc' = IF f = "maximizeWindow"
                      THEN Wrap("Failed to maximize window:", PwClosed)
                      ELSE PwClosed
          /\ pc' = "navigateToLoginPage_catch"
          /\ UNCHANGED <<stack, ret>>
     \/ \E usernameExists \in Present(page, "usernameInput") :
          IF usernameExists
            THEN /\ ret' = "void" /\ Return
                 /\ UNCHANGED <<exc, fvars>>
            ELSE \E shot \in BOOLEAN :
                   /\ faults' = faults \cup {"usernameHidden"}
                                  \cup (IF shot THEN {} ELSE {"screenshot"})
                   /\ IF shot
                        THEN /\ ret' = "void" /\ Return
                             /\ UNCHANGED <<exc, lastFault>>
                        ELSE /\ exc' = PwClosed
                             /\ lastFault' = PwClosed
                             /\ pc' = "navigateToLoginPage_catch"
                             /\ UNCHANGED <<stack, ret>>
  /\ UNCHANGED <<page, target, rvars, hvars, gvars, nvars, bvars>>

\* navigateToLoginPage: catch (error) { screenshot; throw new Error(...) }
NavigateToLoginPageCatch ==
  /\ pc = "navigateToLoginPage_catch"
  /\ exc' = Wrap("Failed to navigate to login page:", exc)
  /\ ret' = "void"
  /\ Return
  /\ UNCHANGED <<page, target, rvars, hvars, fvars, gvars, nvars, bvars>>

\* login: enterUsername, enterPassword, then clickLogin's safeClick
LoginEnterCredentials ==
  /\ pc = "login"
  /\ \E u \in Present(page, "usernameInput"), p \in Present(page, "passwordInput") :
       IF u /\ p
         THEN /\ target' = "loginButton"
              /\ Call("safeClick", "login_clicked")
              /\ UNCHANGED <<exc, fvars>>
         ELSE /\ exc' = IF ~u THEN Wrap("Failed to enter username:", PwTimeout)
                        ELSE Wrap("Failed to enter password:", PwTimeout)
              /\ faults' = faults \cup {IF ~u THEN "enterUsername" ELSE "enterPassword"}
              /\ lastFault' = PwTimeout
              /\ pc' = "login_catch"
              /\ UNCHANGED <<stack, target>>
  /\ UNCHANGED <<ret, page, rvars, hvars, gvars, nvars, bvars>>

\* login: clickLogin settled; the load-state wait and the error-message check,
\* with the inner catch that fabricates the dashboard
LoginPostCheck ==
  /\ pc = "login_clicked"
  /\ IF exc # None
       THEN /\ exc' = Wrap("Failed to click login button:", exc)
            /\ faults' = faults \cup {"clickLogin"}
            /\ pc' = "login_catch"
            /\ UNCHANGED <<stack, ret, page, lastFault>>
       ELSE \E errorVisible \in Present(page, "errorMessage") :
              IF ~errorVisible
                THEN /\ ret' = "void" /\ Return
                     /\ UNCHANGED <<exc, page, fvars>>
                ELSE \E sc \in BOOLEAN :
                       /\ faults' = faults \cup {"loginFailed"}
                                      \cup (IF sc THEN {} ELSE {"setContent"})
                       /\ IF sc
                            THEN /\ page' = SetContent(page, MockDashboardPage.title,
                                                       MockDashboardDom)
                                 /\ ret' = "void" /\ Return
                                 /\ UNCHANGED <<exc, lastFault>>
                            ELSE /\ exc' = PwClosed
                                 /\ lastFault' = PwClosed
                                 /\ pc' = "login_catch"
                                 /\ UNCHANGED <<stack, ret, page>>
  /\ UNCHANGED <<target, rvars, hvars, gvars, nvars, bvars>>

\* login: catch (error) { setContent(dashboard) }
LoginCatchRethrow ==
  /\ pc = "login_catch"
  /\ \E sc \in BOOLEAN :
       /\ page' = IF sc THEN SetContent(page, MockDashboardPage.title, MockDashboardDom)
                  ELSE page
       /\ exc' = IF sc THEN exc ELSE PwClosed
       /\ faults' = faults \cup (IF sc THEN {} ELSE {"setContent"})
       /\ lastFault' = IF sc THEN lastFault ELSE PwClosed
  /\ ret' = "void"
  /\ Return
  /\ UNCHANGED <<target, rvars, hvars, gvars, nvars, bvars>>
LoginCatch ==
  /\ pc = "login_catch"
  /\ \E sc \in BOOLEAN :
       /\ page' = IF sc THEN SetContent(page, MockDashboardPage.title, MockDashboardDom)
                  ELSE page
       /\ exc' = IF sc THEN None ELSE PwClosed
       /\ faults' = faults \cup (IF sc THEN {} ELSE {"setContent"})
       /\ lastFault' = IF sc THEN lastFault ELSE PwClosed
  /\ ret' = "void"
  /\ Return
  /\ UNCHANGED <<target, rvars, hvars, gvars, nvars, bvars>>

----------------------------------------------------------------------------
(* pages/watchlistManager/WatchlistManagerPage *)

\* title.includes('Mock') || title.includes('Test Mode')
TitleIsMock(title) == Includes(title, <<"Mock">>) \/ Includes(title, <<"Test", "Mode">>)

StartsWith(s, prefix) ==
  Len(s) >= Len(prefix) /\ SubSeq(s, 1, Len(prefix)) = prefix

\* locator.count() of an element that is or is not on the page
CountOf(exists) == IF exists THEN 1 ELSE 0

\* isRunningInMockMode: the value returned when no query throws
MockModeVerdictUrlFirst(title, url, mockIndicators, h1s, ps) ==
  IF TitleIsMock(title) THEN "true"
  ELSE IF Includes(url, <<"mock=true">>) THEN "true"
  ELSE IF Includes(url, <<"netreveal">>) \/ Includes(url, <<"https://10.222">>) THEN "false"
  ELSE IF mockIndicators > 0 THEN "true"
  ELSE IF (h1s > 0 \/ ps > 0)
          \/ (StartsWith(url, <<"data:">>) \/ Includes(url, <<"about:blank">>)) THEN "true"
  ELSE "false"
MockModeVerdict(title, url, mockIndicators, h1s, ps) ==
  IF TitleIsMock(title) THEN "true"
  ELSE IF Includes(url, <<"mock=true">>) THEN "true"
  ELSE IF mockIndicators > 0 THEN "true"
  ELSE IF (h1s > 0 \/ ps > 0)
          \/ (StartsWith(url, <<"data:">>) \/ Includes(url, <<"about:blank">>)) THEN "true"
  ELSE IF Includes(url, <<"netreveal">>) \/ Includes(url, <<"https://10.222">>) THEN "false"
  ELSE "false"

\* isRunningInMockMode: catch (error) { return true }
MockModeOnErrorFalse == "false"
MockModeOnError == "true"

\* isRunningInMockMode: the queries that run before the method returns
MockModeQueries(title, url, ind, h1) ==
  IF TitleIsMock(title) \/ Includes(url, <<"mock=true">>) THEN {"title"}
  ELSE IF ind THEN {"title", "mockIndicator"}
  ELSE IF h1 THEN {"title", "mockIndicator", "h1"}
  ELSE {"title", "mockIndicator", "h1", "p"}

IsRunningInMockMode ==
  /\ pc = "isRunningInMockMode"
  /\ \E ind \in Present(page, "mockIndicator"), h1 \in Present(page, "h1MockDashboard"),
        p \in Present(page, "pMockMode") :
       \E thrown \in {"none"} \cup MockModeQueries(page.title, page.url, ind, h1) :
         /\ ret' = IF thrown = "none"
                     THEN MockModeVerdict(page.title, page.url,
                                          CountOf(ind), CountOf(h1), CountOf(p))
                     ELSE MockModeOnError
         /\ faults' = faults \cup (IF thrown = "none" THEN {} ELSE {"mockQuery"})
         /\ lastFault' = IF thrown = "none" THEN lastFault ELSE PwClosed
  /\ exc' = None
  /\ Return
  /\ UNCHANGED <<page, target, rvars, hvars, gvars, nvars, bvars>>

\* the errors assertEuNamePresent and the EU List test throw themselves
EuValidationFailed(detail) == NewError(<<"EU List Validation Failed:", detail>>)

\* error.message.includes('EU List Validation Failed')
IsEuValidationError(e) == Includes(e.message, <<"EU List Validation Failed:">>)

\* catch (error) { throw new Error(`<prefix> ${error}`) }
Catch(prefix) ==
  /\ exc' = Wrap(prefix, exc)
  /\ ret' = "void"
  /\ Return
  /\ UNCHANGED <<page, target, rvars, hvars, fvars, gvars, nvars, bvars>>

\* a page-level call (title, count, waitForLoadState): resolves or rejects
PageCall(name, next, catch) ==
  \E ok \in BOOLEAN :
    /\ exc' = IF ok THEN None ELSE PwClosed
    /\ faults' = IF ok THEN faults ELSE faults \cup {name}
    /\ lastFault' = IF ok THEN lastFault ELSE PwClosed
    /\ pc' = IF ok THEN next ELSE catch

\* await safeClick(locator) in a try body
ClickStep(locator, after) ==
  /\ target' = locator
  /\ Call("safeClick", after)
  /\ UNCHANGED <<exc, ret, page, rvars, hvars, fvars, gvars, nvars, bvars>>

\* the awaited call settled; then optionally waitForLoadState('networkidle')
Settle(idle, catch) ==
  /\ IF exc # None
       THEN pc' = catch /\ UNCHANGED <<exc, fvars>>
       ELSE IF idle
              THEN PageCall("waitForLoadState", "return", catch)
              ELSE pc' = "return" /\ UNCHANGED <<exc, fvars>>
  /\ UNCHANGED <<stack, ret, page, target, rvars, hvars, gvars, nvars, bvars>>

\* the method returns normally
ReturnVoid ==
  /\ pc = "return"
  /\ exc' = None
  /\ ret' = "void"
  /\ Return
  /\ UNCHANGED <<page, target, rvars, hvars, fvars, gvars, nvars, bvars>>

ClickMainMenu ==
  /\ pc = "clickMainMenu"
  /\ PageCall("title", "clickMainMenu_branch", "clickMainMenu_catch")
  /\ UNCHANGED <<stack, ret, page, target, rvars, hvars, gvars, nvars, bvars>>

ClickMainMenuBranch ==
  /\ pc = "clickMainMenu_branch"
  /\ IF TitleIsMock(page.title)
       THEN /\ PageCall("count", "return", "clickMainMenu_catch")
            /\ UNCHANGED <<stack, target>>
       ELSE /\ target' = "mainMenuButton"
            /\ Call("waitForElement", "clickMainMenu_waited")
            /\ UNCHANGED <<exc, fvars>>
  /\ UNCHANGED <<ret, page, rvars, hvars, gvars, nvars, bvars>>

ClickMainMenuWaited ==
  /\ pc = "clickMainMenu_waited"
  /\ IF exc # None
       THEN pc' = "clickMainMenu_catch" /\ UNCHANGED stack
       ELSE Call("safeClick", "clickMainMenu_clicked")
  /\ UNCHANGED <<exc, ret, page, target, rvars, hvars, fvars, gvars, nvars, bvars>>

ClickMainMenuClicked ==
  /\ pc = "clickMainMenu_clicked"
  /\ Settle(FALSE, "clickMainMenu_catch")

ClickMainMenuCatch ==
  /\ pc = "clickMainMenu_catch"
  /\ Catch("Failed to click main menu button:")

NavigateToWatchlistManager ==
  /\ pc = "navigateToWatchlistManager"
  /\ PageCall("title", "navigateToWatchlistManager_branch",
              "navigateToWatchlistManager_catch")
  /\ UNCHANGED <<stack, ret, page, target, rvars, hvars, gvars, nvars, bvars>>

NavigateToWatchlistManagerBranch ==
  /\ pc = "navigateToWatchlistManager_branch"
  /\ IF TitleIsMock(page.title)
       THEN pc' = "return" /\ UNCHANGED <<stack, target>>
       ELSE /\ target' = "watchlistManagerMenu"
            /\ Call("safeClick", "navigateToWatchlistManager_clicked")
  /\ UNCHANGED <<exc, ret, page, rvars, hvars, fvars, gvars, nvars, bvars>>

NavigateToWatchlistManagerClicked ==
  /\ pc = "navigateToWatchlistManager_clicked"
  /\ Settle(FALSE, "navigateToWatchlistManager_catch")

NavigateToWatchlistManagerCatch ==
  /\ pc = "navigateToWatchlistManager_catch"
  /\ Catch("Failed to navigate to Watchlist Manager:")

NavigateToSynonyms ==
  /\ pc = "navigateToSynonyms"
  /\ ClickStep("synonymsMenu", "navigateToSynonyms_clicked")

NavigateToSynonymsClicked ==
  /\ pc = "navigateToSynonyms_clicked"
  /\ Settle(FALSE, "navigateToSynonyms_catch")

NavigateToSynonymsCatch ==
  /\ pc = "navigateToSynonyms_catch"
  /\ Catch("Failed to navigate to Synonyms:")

NavigateToSynonymsRulesManager ==
  /\ pc = "navigateToSynonymsRulesManager"
  /\ ClickStep("synonymsRulesManagerMenu", "navigateToSynonymsRulesManager_clicked")

NavigateToSynonymsRulesManagerClicked ==
  /\ pc = "navigateToSynonymsRulesManager_clicked"
  /\ Settle(TRUE, "navigateToSynonymsRulesManager_catch")

NavigateToSynonymsRulesManagerCatch ==
  /\ pc = "navigateToSynonymsRulesManager_catch"
  /\ Catch("Failed to navigate to Synonyms Rules Manager:")

\* elementExists(weightedWordsRuleSetLink), and the sort click when it is false;
\* faults notes each time the link was seen absent
SortNameColumnAlways ==
  /\ pc \in {"sortNameColumnIfNeeded", "sortNameColumnIfNeeded_sorted"}
  /\ \E isRuleSetVisible \in Present(page, "weightedWordsRuleSetLink") :
       /\ faults' = IF isRuleSetVisible THEN faults
                    ELSE faults \cup {IF pc = "sortNameColumnIfNeeded"
                                        THEN "ruleSetAbsentAtEntry"
                                        ELSE "ruleSetAbsentAfterFirstSort"}
       /\ IF isRuleSetVisible /\ pc # "sortNameColumnIfNeeded"
            THEN pc' = "return" /\ UNCHANGED <<stack, target>>
            ELSE /\ target' = "sortColumnHeading"
                 /\ Call("safeClick", IF pc = "sortNameColumnIfNeeded"
                                        THEN "sortNameColumnIfNeeded_first"
                                        ELSE "sortNameColumnIfNeeded_second")
  /\ UNCHANGED <<exc, ret, page, rvars, hvars, lastFault, gvars, nvars, bvars>>
SortNameColumnIfNeeded ==
  /\ pc \in {"sortNameColumnIfNeeded", "sortNameColumnIfNeeded_sorted"}
  /\ \E isRuleSetVisible \in Present(page, "weightedWordsRuleSetLink") :
       /\ faults' = IF isRuleSetVisible THEN faults
                    ELSE faults \cup {IF pc = "sortNameColumnIfNeeded"
                                        THEN "ruleSetAbsentAtEntry"
                                        ELSE "ruleSetAbsentAfterFirstSort"}
       /\ IF isRuleSetVisible
            THEN pc' = "return" /\ UNCHANGED <<stack, target>>
            ELSE /\ target' = "sortColumnHeading"
                 /\ Call("safeClick", IF pc = "sortNameColumnIfNeeded"
                                        THEN "sortNameColumnIfNeeded_first"
                                        ELSE "sortNameColumnIfNeeded_second")
  /\ UNCHANGED <<exc, ret, page, rvars, hvars, lastFault, gvars, nvars, bvars>>

\* after a sort click: waitForTimeout(1000)
SortNameColumnClicked ==
  /\ pc \in {"sortNameColumnIfNeeded_first", "sortNameColumnIfNeeded_second"}
  /\ IF exc # None
       THEN pc' = "sortNameColumnIfNeeded_catch" /\ UNCHANGED <<exc, fvars>>
       ELSE PageCall("waitForTimeout",
                     IF pc = "sortNameColumnIfNeeded_first"
                       THEN "sortNameColumnIfNeeded_sorted" ELSE "return",
                     "sortNameColumnIfNeeded_catch")
  /\ UNCHANGED <<stack, ret, page, target, rvars, hvars, gvars, nvars, bvars>>

SortNameColumnIfNeededCatch ==
  /\ pc = "sortNameColumnIfNeeded_catch"
  /\ Catch("Failed to sort Name column:")

ClickWeightedWordsRuleSet ==
  /\ pc = "clickWeightedWordsRuleSet"
  /\ ClickStep("weightedWordsRuleSetLink", "clickWeightedWordsRuleSet_clicked")

ClickWeightedWordsRuleSetClicked ==
  /\ pc = "clickWeightedWordsRuleSet_clicked"
  /\ Settle(TRUE, "clickWeightedWordsRuleSet_catch")

ClickWeightedWordsRuleSetCatch ==
  /\ pc = "clickWeightedWordsRuleSet_catch"
  /\ Catch("Failed to click 'Weighted words rule set' link:")

\* the error of a failed expect(locator).toBeVisible()
ExpectError == [name |-> "Error:", message |-> <<"expect(locator).toBeVisible()">>]

AssertAgencyRulePresent ==
  /\ pc = "assertAgencyRulePresent"
  /\ \E visible \in Present(page, "agencyRule") :
       /\ exc' = IF visible THEN None ELSE ExpectError
       /\ lastFault' = IF visible THEN lastFault ELSE ExpectError
       /\ pc' = IF visible THEN "return" ELSE "assertAgencyRulePresent_catch"
  /\ UNCHANGED <<stack, ret, page, target, rvars, hvars, faults, gvars, nvars, bvars>>

AssertAgencyRulePresentCatch ==
  /\ pc = "assertAgencyRulePresent_catch"
  /\ Catch("Assertion failed: 'agency rule' is not visible:")

\* the steps of navigateToSynonymRulesWithoutAssertion, and whether a
\* waitForLoadState('networkidle') follows the step in the sequence
WithoutAssertionSteps ==
  << [call |-> "clickMainMenu", idle |-> TRUE],
     [call |-> "navigateToWatchlistManager", idle |-> TRUE],
     [call |-> "navigateToSynonyms", idle |-> TRUE],
     [call |-> "navigateToSynonymsRulesManager", idle |-> TRUE],
     [call |-> "sortNameColumnIfNeeded", idle |-> FALSE],
     [call |-> "clickWeightedWordsRuleSet", idle |-> FALSE] >>

\* the steps of navigateToSynonymRulesAndAssert
AndAssertStepsSortLast ==
  << [call |-> "clickMainMenu", idle |-> TRUE],
     [call |-> "navigateToWatchlistManager", idle |-> TRUE],
     [call |-> "navigateToSynonyms", idle |-> TRUE],
     [call |-> "navigateToSynonymsRulesManager", idle |-> TRUE],
     [call |-> "clickWeightedWordsRuleSet", idle |-> FALSE],
     [call |-> "sortNameColumnIfNeeded", idle |-> FALSE],
     [call |-> "assertAgencyRulePresent", idle |-> FALSE] >>
AndAssertSteps ==
  << [call |-> "clickMainMenu", idle |-> TRUE],
     [call |-> "navigateToWatchlistManager", idle |-> TRUE],
     [call |-> "navigateToSynonyms", idle |-> TRUE],
     [call |-> "navigateToSynonymsRulesManager", idle |-> TRUE],
     [call |-> "sortNameColumnIfNeeded", idle |-> FALSE],
     [call |-> "clickWeightedWordsRuleSet", idle |-> FALSE],
     [call |-> "assertAgencyRulePresent", idle |-> FALSE] >>

\* the steps of navigateToEUListWithoutAssertion outside mock mode; each
\* wait between two steps has its own try/catch
EUListSteps ==
  << [call |-> "clickMainMenu", idle |-> TRUE],
     [call |-> "navigateToWatchlistManager", idle |-> TRUE],
     [call |-> "navigateToLists", idle |-> TRUE],
     [call |-> "navigateToStandardLists", idle |-> TRUE],
     [call |-> "navigateToEUList", idle |-> FALSE] >>

SequenceSteps(kind) ==
  IF kind = "navigateToSynonymRulesAndAssert" THEN AndAssertSteps
  ELSE IF kind = "navigateToEUListWithoutAssertion" THEN EUListSteps
  ELSE WithoutAssertionSteps

\* entry of either sequence, and the call of the next step
NavigateSequence ==
  /\ pc \in {"navigateToSynonymRulesWithoutAssertion", "navigateToSynonymRulesAndAssert",
             "sequence_next"}
  /\ LET kind == IF pc = "sequence_next" THEN seqKind ELSE pc
         n == IF pc = "sequence_next" THEN step + 1 ELSE 1
     IN  /\ seqKind' = kind
         /\ step' = n
         /\ steps' = IF n = 1 THEN <<SequenceSteps(kind)[n].call>>
                     ELSE Append(steps, SequenceSteps(kind)[n].call)
         /\ Call(SequenceSteps(kind)[n].call, "sequence_stepped")
  /\ UNCHANGED <<exc, ret, page, target, rvars, hvars, fvars, gvars, clicked, bvars>>

\* a step settled: the wait that follows it, then the next step or the end
NavigateSequenceStepped ==
  /\ pc = "sequence_stepped"
  /\ LET last == step = Len(SequenceSteps(seqKind))
         next == IF last THEN "return" ELSE "sequence_next"
         guarded == seqKind = "navigateToEUListWithoutAssertion"
         catch == IF guarded THEN "navigateToEUListWithoutAssertion_catch"
                  ELSE "sequence_catch"
     IN  IF exc # None
           THEN pc' = catch /\ UNCHANGED <<exc, fvars>>
           ELSE IF SequenceSteps(seqKind)[step].idle
                  THEN IF guarded
                         THEN /\ \E ok \in BOOLEAN :
                                   faults' = IF ok THEN faults
                                             ELSE faults \cup {"idleTimeoutBetweenSteps"}
                              /\ pc' = next
                              /\ UNCHANGED <<exc, lastFault>>
                         ELSE PageCall("waitForLoadState", next, catch)
                  ELSE pc' = next /\ UNCHANGED <<exc, fvars>>
  /\ UNCHANGED <<stack, ret, page, target, rvars, hvars, gvars, nvars, bvars>>

NavigateSequenceCatch ==
  /\ pc = "sequence_catch"
  /\ Catch("Navigation sequence failed:")

\* the page object in use on its own: one of the two sequences, or the
\* mock-mode detection, on the application or on a fabricated page
MockTitles ==
  {<<>>, <<"NetReveal">>, <<"NetReveal", "Dashboard">>, <<"NetReveal", "Test", "Mode">>,
   <<"NetReveal", "Mock", "Dashboard">>, <<"Mode", "Test">>}

MockUrls ==
  {<<"about:blank">>, <<"data:", "text/html,">>, <<"view-source:", "data:", "text/html,">>,
   <<"https://example.test/">>, <<"https://example.test/", "?", "mock=true">>,
   <<"https://10.222", ".2.239:8443/">>, RealPage.url}

MockElements == {"mockIndicator", "h1MockDashboard", "pMockMode"}

CallPageObject ==
  /\ pc = "main"
  /\ \E m \in {"navigateToSynonymRulesWithoutAssertion", "navigateToSynonymRulesAndAssert",
               "isRunningInMockMode"} :
       Call(m, "main_end")
  /\ UNCHANGED <<exc, ret, page, target, rvars, hvars, fvars, gvars, nvars, bvars>>

InitNav ==
  /\ InitCommon
  /\ testKind = "none"
  /\ pc = "main"
  /\ page \in {RealPage, MockLoginPage, MockDashboardPage}
              \cup [kind : {"static"}, title : MockTitles, url : MockUrls,
                    dom : SUBSET MockElements]

NextNav ==
  \/ CallPageObject
  \/ IsRunningInMockMode
  \/ NavigateSequence \/ NavigateSequenceStepped \/ NavigateSequenceCatch
  \/ ClickMainMenu \/ ClickMainMenuBranch \/ ClickMainMenuWaited
  \/ ClickMainMenuClicked \/ ClickMainMenuCatch
  \/ NavigateToWatchlistManager \/ NavigateToWatchlistManagerBranch
  \/ NavigateToWatchlistManagerClicked \/ NavigateToWatchlistManagerCatch
  \/ NavigateToSynonyms \/ NavigateToSynonymsClicked \/ NavigateToSynonymsCatch
  \/ NavigateToSynonymsRulesManager \/ NavigateToSynonymsRulesManagerClicked
  \/ NavigateToSynonymsRulesManagerCatch
  \/ SortNameColumnIfNeeded \/ SortNameColumnClicked \/ SortNameColumnIfNeededCatch
  \/ ClickWeightedWordsRuleSet \/ ClickWeightedWordsRuleSetClicked
  \/ ClickWeightedWordsRuleSetCatch
  \/ AssertAgencyRulePresent \/ AssertAgencyRulePresentCatch
  \/ ReturnVoid
  \/ SafeClick \/ SafeClickOpWait \/ WaitForElement \/ SafeClickOpClick \/ SafeClickEnd
  \/ RetryEnter \/ RetryInvoke \/ RetrySettled \/ RetryPause \/ RetryThrow

SpecNav == InitNav /\ [][NextNav]_vars

----------------------------------------------------------------------------
(* tests/ui/WLM/Synonyms/WLMAgencyList.spec.ts *)

\* isLoggedIn: false when a query throws, true on a mock title, else the
\* disjunction of the three element checks
IsLoggedIn ==
  /\ pc = "isLoggedIn"
  /\ \E thrown \in BOOLEAN,
        hasWatchlistMenu \in Present(page, "watchlistManagerMenu"),
        hasMenuButton \in Present(page, "menuButton"),
        hasMainNavigation \in Present(page, "mainNavigation") :
       /\ ret' = IF thrown THEN "false"
                 ELSE IF TitleIsMock(page.title) THEN "true"
                 ELSE IF hasWatchlistMenu \/ hasMenuButton \/ hasMainNavigation
                        THEN "true" ELSE "false"
       /\ faults' = faults \cup (IF thrown THEN {"isLoggedIn"} ELSE {})
                          \cup (IF hasWatchlistMenu \/ hasMenuButton \/ hasMainNavigation
                                  THEN {"indicatorFound"} ELSE {})
       /\ lastFault' = IF thrown THEN PwClosed ELSE lastFault
  /\ exc' = None
  /\ Return
  /\ UNCHANGED <<page, target, rvars, hvars, gvars, nvars, bvars>>

\* the connect block of analyzePage: mcpConnected = true
McpConnectFails == FALSE
McpConnect == TRUE

\* analyzePage: connects if needed; the connection check and its fallback
\* (evaluate, screenshot, return null); otherwise the snapshot is taken in a
\* test.step and stored; any rejection ends in the outer catch, which
\* returns null.  useMcpSnapshot of the EU List tests sets the flag itself:
\* true, then false when its page.evaluate rejects
AnalyzePage ==
  /\ pc = "analyzePage"
  /\ LET connected == IF mcpConnected THEN TRUE ELSE McpConnect IN
     IF ~connected
       THEN /\ faults' = faults \cup {"mcpFallback"}
            /\ ret' = "null"
            /\ mcpConnected' = FALSE
            /\ UNCHANGED lastSnapshot
       ELSE \E evaluated \in BOOLEAN, captured \in BOOLEAN,
               snapshot \in {"snapshot", "null"}, finished \in BOOLEAN :
              /\ mcpConnected' = (testKind # "euList" \/ evaluated)
              /\ lastSnapshot' = IF captured THEN snapshot ELSE lastSnapshot
              /\ ret' = IF captured /\ finished THEN snapshot ELSE "null"
              /\ faults' = IF mcpConnected THEN faults ELSE faults \cup {"mcpConnect"}
  /\ exc' = None
  /\ Return
  /\ UNCHANGED <<page, target, rvars, hvars, lastFault, isVisible, assertError, testStep,
                 testKind, nvars, bvars>>

ElementNotFound == NewError(<<"ERROR REPORT: ELEMENT NOT FOUND">>)
ElementNotVisible == NewError(<<"ERROR REPORT: ELEMENT NOT VISIBLE">>)
TextMismatch == NewError(<<"ERROR REPORT: TEXT CONTENT MISMATCH">>)

\* getMcpSelector('agency rule'): the failure demonstration maps the
\* description to a link with another text
GetMcpSelector(kind) ==
  IF kind = "failureDemo" THEN "aHasTextAdministrativeRule"
  ELSE IF kind = "euList" THEN "eu_name_container"
  ELSE "agencyRule"

\* performEnhancedAgencyRuleAssertion: takeScreenshot (never rejects), then
\* await page.waitForTimeout(2000)
PerformEnhancedAgencyRuleAssertion ==
  /\ pc = "performEnhancedAgencyRuleAssertion"
  /\ PageCall("waitForTimeout", "performEnhancedAgencyRuleAssertion_exists",
              "performEnhancedAgencyRuleAssertion_catch")
  /\ UNCHANGED <<stack, ret, page, target, rvars, hvars, gvars, nvars, bvars>>

\* the existence check (checkElementExists and count); when it fails the
\* report is built from unguarded page queries (title, allTextContents,
\* textContent, count); when it passes the visibility check starts under
\* retry(..., 3, 1000)
AssertionExists ==
  /\ pc = "performEnhancedAgencyRuleAssertion_exists"
  /\ \E isElementPresent \in Present(page, GetMcpSelector(testKind)),
        counted \in BOOLEAN, reported \in BOOLEAN :
       IF ~counted
         THEN /\ exc' = PwClosed
              /\ lastFault' = PwClosed
              /\ faults' = faults \cup {"count"}
              /\ pc' = "performEnhancedAgencyRuleAssertion_catch"
              /\ UNCHANGED <<stack, rvars, isVisible, assertError>>
         ELSE IF ~isElementPresent
           THEN LET e == IF reported THEN ElementNotFound ELSE PwClosed IN
                /\ exc' = e
                /\ lastFault' = e
                /\ faults' = faults \cup {"existenceFailed"}
                                    \cup (IF reported THEN {} ELSE {"existenceReport"})
                /\ pc' = "performEnhancedAgencyRuleAssertion_catch"
                /\ UNCHANGED <<stack, rvars, isVisible, assertError>>
           ELSE /\ isVisible' = FALSE
                /\ assertError' = None
                /\ maxRetries' = 3 /\ delayMs' = 1000 /\ opKind' = "visible"
                /\ Call("retry", "performEnhancedAgencyRuleAssertion_retried")
                /\ UNCHANGED <<exc, fvars, attempt, lastError>>
  /\ UNCHANGED <<ret, page, target, hvars, mcpConnected, lastSnapshot, testStep, testKind,
                 nvars, bvars>>

\* performEnhancedEuNameAssertion: the same checks on the eu_name locator,
\* without the text check
PerformEnhancedEuNameAssertion ==
  /\ pc = "performEnhancedEuNameAssertion"
  /\ PageCall("waitForTimeout", "performEnhancedAgencyRuleAssertion_exists",
              "performEnhancedAgencyRuleAssertion_catch")
  /\ UNCHANGED <<stack, ret, page, target, rvars, hvars, gvars, nvars, bvars>>

\* the operation retried: expect(locator).toBeVisible(); isVisible = true
AssertionOpVisibleFlagFirst ==
  /\ pc = "op_visible"
  /\ \E visible \in Present(page, IF testKind = "euList" THEN "eu_name_container"
                                    ELSE "agencyRuleVisible") :
       LET e == IF visible THEN None ELSE ExpectError IN
       /\ exc' = e
       /\ isVisible' = TRUE
       /\ outcomes' = Append(outcomes, Settled(visible, "void", e))
       /\ trace' = Append(trace, IF visible THEN "ok" ELSE "fail")
       /\ lastFault' = IF visible THEN lastFault ELSE ExpectError
  /\ ret' = "void"
  /\ Return
  /\ UNCHANGED <<page, target, rvars, pauses, faults, mcpConnected, lastSnapshot,
                 assertError, testStep, testKind, nvars, bvars>>
AssertionOpVisible ==
  /\ pc = "op_visible"
  /\ \E visible \in Present(page, IF testKind = "euList" THEN "eu_name_container"
                                    ELSE "agencyRuleVisible") :
       LET e == IF visible THEN None ELSE ExpectError IN
       /\ exc' = e
       /\ isVisible' = (isVisible \/ visible)
       /\ outcomes' = Append(outcomes, Settled(visible, "void", e))
       /\ trace' = Append(trace, IF visible THEN "ok" ELSE "fail")
       /\ lastFault' = IF visible THEN lastFault ELSE ExpectError
  /\ ret' = "void"
  /\ Return
  /\ UNCHANGED <<page, target, rvars, pauses, faults, mcpConnected, lastSnapshot,
                 assertError, testStep, testKind, nvars, bvars>>

\* retry settled: catch (error) { lastError = error }, the visibility
\* verdict (its report is built from guarded queries), then the text check
\* on an unguarded textContent()
AssertionRetried ==
  /\ pc = "performEnhancedAgencyRuleAssertion_retried"
  /\ assertError' = exc
  /\ IF ~isVisible /\ exc # None
       THEN /\ exc' = ElementNotVisible
            /\ lastFault' = ElementNotVisible
            /\ faults' = faults \cup {"visibilityFailed"}
            /\ pc' = "performEnhancedAgencyRuleAssertion_catch"
       ELSE IF testKind = "euList"
         THEN pc' = "return" /\ UNCHANGED <<exc, fvars>>
       ELSE \E read \in BOOLEAN, textMatches \in Present(page, "agencyRuleText") :
              LET e == IF ~read THEN PwClosed
                       ELSE IF textMatches THEN None ELSE TextMismatch IN
              /\ exc' = e
              /\ lastFault' = IF e = None THEN lastFault ELSE e
              /\ faults' = IF ~read THEN faults \cup {"textContent"}
                           ELSE IF textMatches THEN faults
                           ELSE faults \cup {"textFailed"}
              /\ pc' = IF e = None THEN "return"
                       ELSE "performEnhancedAgencyRuleAssertion_catch"
  /\ UNCHANGED <<stack, ret, page, target, rvars, hvars, mcpConnected,
                 lastSnapshot, isVisible, testStep, testKind, nvars, bvars>>

\* catch (error) { takeScreenshot; throw error }
AssertionCatch ==
  /\ pc = "performEnhancedAgencyRuleAssertion_catch"
  /\ ret' = "void"
  /\ Return
  /\ UNCHANGED <<exc, page, target, rvars, hvars, fvars, gvars, nvars, bvars>>

\* test.beforeEach; the one of the EU List tests leaves the two flags alone
BeforeEach ==
  /\ pc = "beforeEach"
  /\ mcpConnected' = IF testKind = "euList" THEN mcpConnected ELSE TRUE
  /\ lastSnapshot' = IF testKind = "euList" THEN lastSnapshot ELSE "null"
  /\ testStep' = 0
  /\ pc' = "test"
  /\ UNCHANGED <<stack, exc, ret, page, target, rvars, hvars, fvars, isVisible,
                 assertError, testKind, nvars, bvars>>

\* the tests of the suite: 'Verify agency rule is present in Synonym Rules' and
\* 'Demonstrate enhanced error messaging for incorrect element selection'
TestKinds == {"agency", "failureDemo"}

\* the awaited calls of the test body, in order
TestBody(kind) ==
  IF kind = "failureDemo"
    THEN << "navigateToLoginPage", "login", "isLoggedIn",
            "navigateToSynonymRulesWithoutAssertion",
            "performEnhancedAgencyRuleAssertion" >>
  ELSE IF kind = "euList"
    THEN << "navigateToLoginPage", "analyzePage", "login", "isLoggedIn", "analyzePage",
            "analyzePage", "navigateToEUListWithoutAssertion",
            "performEnhancedEuNameAssertion" >>
    ELSE << "navigateToLoginPage", "analyzePage", "login", "isLoggedIn", "analyzePage",
            "analyzePage", "navigateToSynonymRulesWithoutAssertion",
            "performEnhancedAgencyRuleAssertion" >>

\* expect(isLoggedIn, 'User should be logged in').toBeTruthy()
ExpectLoggedIn == NewError(<<"User should be logged in">>)

\* the test body: the previous call settled, the next one starts
TestStep ==
  /\ pc = "test"
  /\ IF exc # None
       THEN pc' = "test_catch" /\ UNCHANGED <<stack, exc, testStep, lastFault>>
       ELSE IF testStep > 0 /\ TestBody(testKind)[testStep] = "isLoggedIn" /\ ret = "false"
         THEN /\ exc' = ExpectLoggedIn
              /\ lastFault' = ExpectLoggedIn
              /\ pc' = "test_catch"
              /\ UNCHANGED <<stack, testStep>>
         ELSE IF testStep = Len(TestBody(testKind))
           THEN pc' = "test_passed" /\ UNCHANGED <<stack, exc, testStep, lastFault>>
           ELSE /\ testStep' = testStep + 1
                /\ Call(TestBody(testKind)[testStep + 1], "test")
                /\ UNCHANGED <<exc, lastFault>>
  /\ UNCHANGED <<ret, page, target, rvars, hvars, faults, mcpConnected, lastSnapshot,
                 isVisible, assertError, testKind, nvars, bvars>>

\* throw new Error('DEMONSTRATION TEST - EXPECTED FAILURE: ...')
DemonstrationFailure ==
  NewError(<<"DEMONSTRATION TEST - EXPECTED FAILURE: Enhanced error reporting demonstration">>)

\* the catch of the step 'Verify eu_name presence in EU List'
VerifyStepErrorRethrow(e) == e
VerifyStepError(e) ==
  IF e.message = <<>> \/ ~IsEuValidationError(e)
    THEN EuValidationFailed("The test was unable to verify the presence of 'eu_name' text")
    ELSE e

\* catch (error) { takeScreenshot; throw error }; the demonstration test throws
\* its own error instead; in the EU List test only the last step has a catch
TestCatch ==
  /\ pc = "test_catch"
  /\ exc' = IF testKind = "failureDemo" THEN DemonstrationFailure
            ELSE IF testKind = "euList" /\ testStep = Len(TestBody(testKind))
              THEN VerifyStepError(exc)
            ELSE exc
  /\ pc' = "test_failed"
  /\ UNCHANGED <<stack, ret, page, target, rvars, hvars, fvars, gvars, nvars, bvars>>

\* the test file loaded: let mcpConnected = false; let lastSnapshot = null
Init ==
  /\ InitCommon
  /\ testKind \in TestKinds
  /\ pc = "beforeEach"
  /\ page = BlankPage

Next ==
  \/ BeforeEach \/ TestStep \/ TestCatch
  \/ NavigateToLoginPageGoto \/ NavigateToLoginPageChecks \/ NavigateToLoginPageCatch
  \/ AnalyzePage
  \/ LoginEnterCredentials \/ LoginPostCheck \/ LoginCatch
  \/ IsLoggedIn
  \/ NavigateSequence \/ NavigateSequenceStepped \/ NavigateSequenceCatch
  \/ ClickMainMenu \/ ClickMainMenuBranch \/ ClickMainMenuWaited
  \/ ClickMainMenuClicked \/ ClickMainMenuCatch
  \/ NavigateToWatchlistManager \/ NavigateToWatchlistManagerBranch
  \/ NavigateToWatchlistManagerClicked \/ NavigateToWatchlistManagerCatch
  \/ NavigateToSynonyms \/ NavigateToSynonymsClicked \/ NavigateToSynonymsCatch
  \/ NavigateToSynonymsRulesManager \/ NavigateToSynonymsRulesManagerClicked
  \/ NavigateToSynonymsRulesManagerCatch
  \/ SortNameColumnIfNeeded \/ SortNameColumnClicked \/ SortNameColumnIfNeededCatch
  \/ ClickWeightedWordsRuleSet \/ ClickWeightedWordsRuleSetClicked
  \/ ClickWeightedWordsRuleSetCatch
  \/ PerformEnhancedAgencyRuleAssertion \/ AssertionExists \/ AssertionOpVisible \/ AssertionRetried
  \/ AssertionCatch
  \/ ReturnVoid
  \/ SafeClick \/ SafeClickOpWait \/ WaitForElement \/ SafeClickOpClick \/ SafeClickEnd
  \/ RetryEnter \/ RetryInvoke \/ RetrySettled \/ RetryPause \/ RetryThrow

Spec == Init /\ [][Next]_vars

----------------------------------------------------------------------------
(* pages/watchlistManager/StandardListPage: Strategy 3 of                  *)
(* navigateToEUListWithoutAssertion, entered when Strategies 1 and 2 failed *)

\* the texts the script inside the page looks for, one per setTimeout level
TimerTexts == <<"textWatchlistManager", "textLists", "textStandardLists", "textEUList">>

Strategy3Texts == {"textMenu", "euNameText"} \cup {TimerTexts[i] : i \in 1..Len(TimerTexts)}

\* the Playwright call awaited at a position of Strategy 3
PageCallInProgress(label) ==
  CASE label = "strategy3_wait"    -> "waitForTimeout"
    [] label = "strategy3_visible" -> "isVisible"
    [] label = "strategy3_catch"   -> "screenshot"
    [] label = "strategy3_outer"   -> "screenshot"
    [] OTHER                       -> "none"

\* page.evaluate: the script clicks the main menu if found, schedules the
\* first setTimeout and returns at once
Strategy3Evaluate ==
  /\ pc = "strategy3"
  /\ \/ /\ exc' = PwClosed
        /\ faults' = faults \cup {"evaluate"}
        /\ lastFault' = PwClosed
        /\ pc' = "strategy3_catch"
        /\ UNCHANGED <<timer, domClicked>>
     \/ \E foundMainMenu \in Present(page, "textMenu") :
          /\ domClicked' = IF foundMainMenu THEN Append(domClicked, "textMenu")
                           ELSE domClicked
          /\ timer' = 1
          /\ pc' = "strategy3_wait"
          /\ UNCHANGED <<exc, fvars>>
  /\ UNCHANGED <<stack, ret, page, target, rvars, hvars, gvars, nvars, overlaps, strategy, success, tried, expandAttempt, expandError>>

\* a setTimeout callback runs in the page: it clicks what it finds and
\* schedules the next level; nothing on the test's side waits for it
TimerFires ==
  /\ timer \in 1..Len(TimerTexts)
  /\ \E found \in Present(page, TimerTexts[timer]) :
       /\ domClicked' = IF found THEN Append(domClicked, TimerTexts[timer])
                        ELSE domClicked
       /\ timer' = IF found /\ timer < Len(TimerTexts) THEN timer + 1 ELSE 0
  /\ overlaps' = IF PageCallInProgress(pc) = "none" THEN overlaps
                 ELSE overlaps \cup {<<PageCallInProgress(pc), timer>>}
  /\ UNCHANGED <<ctl, page, target, rvars, hvars, fvars, gvars, nvars, strategy, success, tried, expandAttempt, expandError>>

\* a click made by the script navigated the application: its timers are gone
TimerDiscarded ==
  /\ timer > 0
  /\ page.kind = "real" /\ domClicked # <<>>
  /\ timer' = 0
  /\ UNCHANGED <<ctl, page, target, rvars, hvars, fvars, gvars, nvars, domClicked,
                 overlaps, strategy, success, tried, expandAttempt, expandError>>

\* await this.page.waitForTimeout(3000) settled
Strategy3Wait ==
  /\ pc = "strategy3_wait"
  /\ PageCall("waitForTimeout", "strategy3_visible", "strategy3_catch")
  /\ UNCHANGED <<stack, ret, page, target, rvars, hvars, gvars, nvars, bvars>>

\* eu_name isVisible().catch(() => false) settled
Strategy3Visible ==
  /\ pc = "strategy3_visible"
  /\ \E euNameVisible \in Present(page, "euNameText") :
       LET e == NewError(<<"Full DOM search did not successfully navigate to EU List">>)
       IN  /\ exc' = IF euNameVisible THEN None ELSE e
           /\ lastFault' = IF euNameVisible THEN lastFault ELSE e
           /\ pc' = IF euNameVisible THEN "return" ELSE "strategy3_catch"
  /\ UNCHANGED <<stack, ret, page, target, rvars, hvars, faults, gvars, nvars, bvars>>

\* catch (strategy3Error) { screenshot; throw new Error(...) }
Strategy3Catch ==
  /\ pc = "strategy3_catch"
  /\ \E shot \in BOOLEAN :
       /\ exc' = IF shot THEN Wrap("All navigation strategies to EU List failed:", exc)
                 ELSE PwClosed
       /\ faults' = IF shot THEN faults ELSE faults \cup {"screenshot"}
       /\ lastFault' = IF shot THEN lastFault ELSE PwClosed
  /\ pc' = "strategy3_outer"
  /\ UNCHANGED <<stack, ret, page, target, rvars, hvars, gvars, nvars, bvars>>

\* catch (error) { screenshot; page.content(); throw new Error(...) }
Strategy3OuterCatch ==
  /\ pc = "strategy3_outer"
  /\ \E ok \in BOOLEAN :
       /\ exc' = IF ok THEN Wrap("All navigation strategies to EU List failed:", exc)
                 ELSE PwClosed
       /\ faults' = IF ok THEN faults ELSE faults \cup {"screenshot"}
       /\ lastFault' = IF ok THEN lastFault ELSE PwClosed
  /\ ret' = "void"
  /\ Return
  /\ UNCHANGED <<page, target, rvars, hvars, gvars, nvars, bvars>>

CallStrategy3 ==
  /\ pc = "main"
  /\ Call("strategy3", "main_end")
  /\ UNCHANGED <<exc, ret, page, target, rvars, hvars, fvars, gvars, nvars, bvars>>

InitStrategy3 ==
  /\ InitCommon
  /\ testKind = "none"
  /\ pc = "main"
  /\ page \in {RealPage, MockLoginPage, MockDashboardPage}
              \cup [kind : {"static"}, title : {<<"NetReveal">>}, url : {RealPage.url},
                    dom : SUBSET Strategy3Texts]

NextStrategy3 ==
  \/ CallStrategy3
  \/ Strategy3Evaluate \/ Strategy3Wait \/ Strategy3Visible
  \/ Strategy3Catch \/ Strategy3OuterCatch
  \/ TimerFires \/ TimerDiscarded
  \/ ReturnVoid

SpecStrategy3 == InitStrategy3 /\ [][NextStrategy3]_vars

----------------------------------------------------------------------------
(* pages/watchlistManager/WatchlistManagerPage: the way to the EU List *)

\* navigateToLists, navigateToStandardLists and navigateToEUList: the
\* locator waited for and clicked, the locator counted when that failed
\* (none in navigateToStandardLists), whether the count of mock mode has its
\* own try/catch, whether a guarded wait for network idle follows the click,
\* and the prefix of the catch block
ListMethods ==
  { [name |-> "navigateToLists", mode |-> "navigateToLists_mode",
     waited |-> "navigateToLists_waited", clicked |-> "navigateToLists_clicked",
     catch |-> "navigateToLists_catch",
     locator |-> "listsMenu", maybeInMock |-> "listsMenu", swallow |-> TRUE,
     guardedCount |-> FALSE, idle |-> FALSE,
     prefix |-> "Failed to navigate to Lists:"],
    [name |-> "navigateToStandardLists", mode |-> "navigateToStandardLists_mode",
     waited |-> "navigateToStandardLists_waited",
     clicked |-> "navigateToStandardLists_clicked",
     catch |-> "navigateToStandardLists_catch",
     locator |-> "standardListsMenu", maybeInMock |-> "none", swallow |-> FALSE,
     guardedCount |-> TRUE, idle |-> FALSE,
     prefix |-> "Failed to navigate to Standard Lists:"],
    [name |-> "navigateToEUList", mode |-> "navigateToEUList_mode",
     waited |-> "navigateToEUList_waited", clicked |-> "navigateToEUList_clicked",
     catch |-> "navigateToEUList_catch",
     locator |-> "textEUList", maybeInMock |-> "eu_list_item", swallow |-> TRUE,
     guardedCount |-> FALSE, idle |-> TRUE,
     prefix |-> "Failed to navigate to EU List:"] }

\* const isMockMode = await this.isRunningInMockMode()
NavigateToListMethod ==
  /\ \E m \in ListMethods :
       pc = m.name /\ Call("isRunningInMockMode", m.mode)
  /\ UNCHANGED <<exc, ret, page, target, rvars, hvars, fvars, gvars, nvars, bvars>>

\* in mock mode the element is counted and nothing is clicked; otherwise
\* await waitForElement(locator)
NavigateToListMethodMode ==
  /\ \E m \in ListMethods :
       /\ pc = m.mode
       /\ IF ret = "true"
            THEN /\ \E ok \in BOOLEAN :
                      LET thrown == ~ok /\ ~m.guardedCount IN
                      /\ exc' = IF thrown THEN PwClosed ELSE None
                      /\ lastFault' = IF thrown THEN PwClosed ELSE lastFault
                      /\ faults' = IF ok THEN faults ELSE faults \cup {"count"}
                      /\ pc' = IF thrown THEN m.catch ELSE "return"
                 /\ UNCHANGED <<stack, target>>
            ELSE /\ target' = m.locator
                 /\ Call("waitForElement", m.waited)
                 /\ UNCHANGED <<exc, fvars>>
  /\ UNCHANGED <<ret, page, rvars, hvars, gvars, nvars, bvars>>

\* waitForElement settled: await safeClick(locator), or the inner catch
NavigateToListMethodWaited ==
  /\ \E m \in ListMethods :
       /\ pc = m.waited
       /\ IF exc # None
            THEN pc' = m.clicked /\ UNCHANGED stack
            ELSE Call("safeClick", m.clicked)
  /\ UNCHANGED <<exc, ret, page, target, rvars, hvars, fvars, gvars, nvars, bvars>>

\* the wait and the click settled.  catch (normalModeError): the element is
\* counted and the error is dropped when it is there, re-thrown otherwise
NavigateToListMethodClickedSwallowAll ==
  /\ \E m \in ListMethods :
       /\ pc = m.clicked
       /\ IF exc = None
            THEN /\ \E ok \in BOOLEAN :
                      faults' = IF m.idle /\ ~ok THEN faults \cup {"idleTimeout"}
                                ELSE faults
                 /\ pc' = "return"
                 /\ UNCHANGED <<exc, lastFault>>
            ELSE IF ~m.swallow
              THEN pc' = m.catch /\ UNCHANGED <<exc, fvars>>
              ELSE \E counted \in BOOLEAN, maybeInMock \in {TRUE} :
                     IF ~counted
                       THEN /\ exc' = PwClosed
                            /\ lastFault' = PwClosed
                            /\ faults' = faults \cup {"count"}
                            /\ pc' = m.catch
                       ELSE IF maybeInMock
                         THEN /\ exc' = None
                              /\ faults' = faults \cup {"swallowed"}
                              /\ pc' = "return"
                              /\ UNCHANGED lastFault
                         ELSE pc' = m.catch /\ UNCHANGED <<exc, fvars>>
  /\ UNCHANGED <<stack, ret, page, target, rvars, hvars, gvars, nvars, bvars>>
NavigateToListMethodClicked ==
  /\ \E m \in ListMethods :
       /\ pc = m.clicked
       /\ IF exc = None
            THEN /\ \E ok \in BOOLEAN :
                      faults' = IF m.idle /\ ~ok THEN faults \cup {"idleTimeout"}
                                ELSE faults
                 /\ pc' = "return"
                 /\ UNCHANGED <<exc, lastFault>>
            ELSE IF ~m.swallow
              THEN pc' = m.catch /\ UNCHANGED <<exc, fvars>>
              ELSE \E counted \in BOOLEAN, maybeInMock \in Present(page, m.maybeInMock) :
                     IF ~counted
                       THEN /\ exc' = PwClosed
                            /\ lastFault' = PwClosed
                            /\ faults' = faults \cup {"count"}
                            /\ pc' = m.catch
                       ELSE IF maybeInMock
                         THEN /\ exc' = None
                              /\ faults' = faults \cup {"swallowed"}
                              /\ pc' = "return"
                              /\ UNCHANGED lastFault
                         ELSE pc' = m.catch /\ UNCHANGED <<exc, fvars>>
  /\ UNCHANGED <<stack, ret, page, target, rvars, hvars, gvars, nvars, bvars>>

NavigateToListMethodCatch ==
  \E m \in ListMethods :
    /\ pc = m.catch
    /\ Catch(m.prefix)

\* navigateToEUListWithoutAssertion: const isMockMode = await
\* this.isRunningInMockMode()
NavigateToEUListWithoutAssertion ==
  /\ pc = "navigateToEUListWithoutAssertion"
  /\ Call("isRunningInMockMode", "navigateToEUListWithoutAssertion_mode")
  /\ UNCHANGED <<exc, ret, page, target, rvars, hvars, fvars, gvars, nvars, bvars>>

MissingMenuElements ==
  NewError(<<"Mock environment is missing required menu elements">>)

\* if (!menuTriggerExists || !watchlistManagerExists || !listsMenuExists)
MockElementsMissingStrict(menuTrigger, manager, lists, standardLists, euList) ==
  ~menuTrigger \/ ~manager \/ ~lists \/ ~standardLists \/ ~euList
MockElementsMissing(menuTrigger, manager, lists, standardLists, euList) ==
  ~menuTrigger \/ ~manager \/ ~lists

\* the branch on isMockMode: in mock mode (noted) the five elements are
\* counted and nothing is clicked; otherwise the five steps run in order
NavigateToEUListMode ==
  /\ pc = "navigateToEUListWithoutAssertion_mode"
  /\ IF ret = "true"
       THEN /\ \E counted \in BOOLEAN,
                  menuTriggerExists \in Present(page, "mainMenuButton"),
                  watchlistManagerExists \in Present(page, "watchlistManagerMenu"),
                  listsMenuExists \in Present(page, "listsMenu"),
                  standardStrict \in Present(page, "standardListsMenu"),
                  standardLenient \in Present(page, "standard_lists"),
                  euListText \in Present(page, "textEUListExact"),
                  euListId \in Present(page, "eu_list_item") :
                 LET e == IF ~counted THEN PwClosed
                          ELSE IF MockElementsMissing(menuTriggerExists,
                                    watchlistManagerExists, listsMenuExists,
                                    standardStrict \/ standardLenient,
                                    euListText \/ euListId)
                            THEN MissingMenuElements
                            ELSE None
                 IN  /\ exc' = e
                     /\ lastFault' = IF e = None THEN lastFault ELSE e
                     /\ faults' = faults \cup {"euListMockMode"}
                                     \cup (IF counted THEN {} ELSE {"count"})
                     /\ pc' = IF e = None THEN "return"
                              ELSE "navigateToEUListWithoutAssertion_catch"
            /\ UNCHANGED <<step, seqKind, steps>>
       ELSE /\ seqKind' = "navigateToEUListWithoutAssertion"
            /\ step' = 0
            /\ steps' = <<>>
            /\ pc' = "sequence_next"
            /\ UNCHANGED <<exc, fvars>>
  /\ UNCHANGED <<stack, ret, page, target, rvars, hvars, gvars, clicked, bvars>>

\* catch (error): a screenshot in its own try/catch, then
\* throw new Error(`Navigation sequence to EU List failed: ${error}`)
NavigateToEUListCatchUnguarded ==
  /\ pc = "navigateToEUListWithoutAssertion_catch"
  /\ \E shot \in BOOLEAN :
       /\ faults' = IF shot THEN faults ELSE faults \cup {"failureScreenshot"}
       /\ exc' = IF shot THEN Wrap("Navigation sequence to EU List failed:", exc)
                 ELSE PwClosed
  /\ ret' = "void"
  /\ Return
  /\ UNCHANGED <<page, target, rvars, hvars, lastFault, gvars, nvars, bvars>>
NavigateToEUListCatch ==
  /\ pc = "navigateToEUListWithoutAssertion_catch"
  /\ \E shot \in BOOLEAN :
       faults' = IF shot THEN faults ELSE faults \cup {"failureScreenshot"}
  /\ exc' = Wrap("Navigation sequence to EU List failed:", exc)
  /\ ret' = "void"
  /\ Return
  /\ UNCHANGED <<page, target, rvars, hvars, lastFault, gvars, nvars, bvars>>

\* assertEuNamePresent: const isMockMode = await this.isRunningInMockMode()
AssertEuNamePresent ==
  /\ pc = "assertEuNamePresent"
  /\ Call("isRunningInMockMode", "assertEuNamePresent_mode")
  /\ UNCHANGED <<exc, ret, page, target, rvars, hvars, fvars, gvars, nvars, bvars>>

\* elementExists (never rejects); in mock mode page.content() and the two
\* checks, otherwise expect(locator).toBeVisible(); each failure takes an
\* unguarded screenshot before it throws the method's own error
AssertEuNamePresentMode ==
  /\ pc = "assertEuNamePresent_mode"
  /\ \E isElementPresent \in Present(page, "eu_name_container"),
        inContent \in Present(page, "contentEuName"),
        read \in BOOLEAN, shot \in BOOLEAN :
       LET found == IF ret = "true" THEN read /\ (isElementPresent \/ inContent)
                    ELSE isElementPresent
           e == IF found THEN None
                ELSE IF (ret = "true" /\ ~read) \/ ~shot THEN PwClosed
                ELSE IF ret = "true"
                  THEN EuValidationFailed("was not found in the page content")
                  ELSE EuValidationFailed("was found in the page but is not visible")
       IN  /\ exc' = e
           /\ lastFault' = IF e = None THEN lastFault ELSE e
           /\ faults' = IF found THEN faults
                        ELSE IF ret = "true" /\ ~read THEN faults \cup {"content"}
                        ELSE IF ~shot THEN faults \cup {"screenshot"}
                        ELSE faults
           /\ pc' = IF found THEN "return" ELSE "assertEuNamePresent_catch"
  /\ UNCHANGED <<stack, ret, page, target, rvars, hvars, gvars, nvars, bvars>>

\* catch (error): an error of another kind is replaced by the generic one
\* after an unguarded screenshot; the method's own error is re-thrown
AssertEuNamePresentCatch ==
  /\ pc = "assertEuNamePresent_catch"
  /\ IF exc.message # <<>> /\ ~IsEuValidationError(exc)
       THEN \E shot \in BOOLEAN :
              /\ exc' = IF shot THEN EuValidationFailed("Unable to verify the presence")
                        ELSE PwClosed
              /\ faults' = IF shot THEN faults ELSE faults \cup {"catchScreenshot"}
              /\ lastFault' = IF shot THEN lastFault ELSE PwClosed
       ELSE UNCHANGED <<exc, fvars>>
  /\ ret' = "void"
  /\ Return
  /\ UNCHANGED <<page, target, rvars, hvars, gvars, nvars, bvars>>

----------------------------------------------------------------------------
(* The EU List page object on its own, and the test 'Verify eu_name is
   present in EU List' *)

EUElements == {"mainMenuButton", "watchlistManagerMenu", "listsMenu", "standard_lists",
               "eu_list_item", "textEUList", "eu_name_container"}

CallEUPageObject ==
  /\ pc = "main"
  /\ \E m \in {"navigateToEUListWithoutAssertion", "assertEuNamePresent",
               "navigateToLists", "navigateToStandardLists", "navigateToEUList"} :
       /\ seqKind' = m
       /\ Call(m, "main_end")
  /\ UNCHANGED <<exc, ret, page, target, rvars, hvars, fvars, gvars, step, clicked, steps,
                 bvars>>

InitEU ==
  /\ InitCommon
  /\ \/ /\ testKind = "euList"
        /\ pc = "beforeEach"
        /\ page = BlankPage
     \/ /\ testKind = "none"
        /\ pc = "main"
        /\ page \in {RealPage, MockDashboardPage}
                    \cup [kind : {"static"},
                          title : {<<"NetReveal">>, <<"NetReveal", "Mock", "Dashboard">>},
                          url : {<<"about:blank">>, RealPage.url},
                          dom : SUBSET EUElements]

NextEU ==
  \/ CallEUPageObject
  \/ BeforeEach \/ TestStep \/ TestCatch
  \/ NavigateToLoginPageGoto \/ NavigateToLoginPageChecks \/ NavigateToLoginPageCatch
  \/ AnalyzePage
  \/ LoginEnterCredentials \/ LoginPostCheck \/ LoginCatch
  \/ IsLoggedIn
  \/ IsRunningInMockMode
  \/ NavigateToEUListWithoutAssertion \/ NavigateToEUListMode \/ NavigateToEUListCatch
  \/ NavigateSequence \/ NavigateSequenceStepped
  \/ ClickMainMenu \/ ClickMainMenuBranch \/ ClickMainMenuWaited
  \/ ClickMainMenuClicked \/ ClickMainMenuCatch
  \/ NavigateToWatchlistManager \/ NavigateToWatchlistManagerBranch
  \/ NavigateToWatchlistManagerClicked \/ NavigateToWatchlistManagerCatch
  \/ NavigateToListMethod \/ NavigateToListMethodMode \/ NavigateToListMethodWaited
  \/ NavigateToListMethodClicked \/ NavigateToListMethodCatch
  \/ AssertEuNamePresent \/ AssertEuNamePresentMode \/ AssertEuNamePresentCatch
  \/ PerformEnhancedEuNameAssertion \/ AssertionExists \/ AssertionOpVisible
  \/ AssertionRetried \/ AssertionCatch
  \/ ReturnVoid
  \/ SafeClick \/ SafeClickOpWait \/ WaitForElement \/ SafeClickOpClick \/ SafeClickEnd
  \/ RetryEnter \/ RetryInvoke \/ RetrySettled \/ RetryPause \/ RetryThrow

SpecEU == InitEU /\ [][NextEU]_vars

----------------------------------------------------------------------------
(* pages/watchlistManager/StandardListPage: the click strategies *)

\* currentUrl.includes(word): read off the URL of a fabricated page, free on
\* a page of the real application, whose URL changes as it navigates
UrlIncludes(pg, word) ==
  IF pg.kind = "static" THEN {Includes(pg.url, <<word>>)} ELSE BOOLEAN

\* the methods that try selectorStrategies in a for loop: the locators in the
\* order of the array, whether Playwright calls stand between isVisible and
\* safeClick, the check made after the click, the error thrown when no
\* strategy succeeded, whether Playwright calls surround that throw and
\* follow the loop, and the prefix of the catch block
StrategyMethods ==
  { [name |-> "standardList_navigateToLists",
     loop |-> "standardList_navigateToLists_loop",
     clicked |-> "standardList_navigateToLists_clicked",
     done |-> "standardList_navigateToLists_done",
     catch |-> "standardList_navigateToLists_catch",
     locators |-> <<"listsMenu", "listsExactText", "listsInExpanded", "listsText",
                    "listsListItem">>,
     before |-> FALSE,
     verified |-> Present(page, "standardListsMenu"),
     failure |-> "All Lists menu click strategies failed",
     tail |-> FALSE,
     prefix |-> "Failed to navigate to Lists:"],
    [name |-> "standardList_navigateToStandardLists",
     loop |-> "standardList_navigateToStandardLists_loop",
     clicked |-> "standardList_navigateToStandardLists_clicked",
     done |-> "standardList_navigateToStandardLists_done",
     catch |-> "standardList_navigateToStandardLists_catch",
     locators |-> <<"standardListsMenu", "standardListsExactText", "standardListsInMenu",
                    "standardListsText", "standardListsListItem">>,
     before |-> TRUE,
     verified |-> {euListVisible \/ urlChanged :
                     euListVisible \in Present(page, "euListLink"),
                     urlChanged \in IF page.kind = "static" THEN {FALSE} ELSE BOOLEAN},
     failure |-> "All Standard Lists menu click strategies failed",
     tail |-> FALSE,
     prefix |-> "Failed to navigate to Standard Lists:"],
    [name |-> "standardList_clickEUList",
     loop |-> "standardList_clickEUList_loop",
     clicked |-> "standardList_clickEUList_clicked",
     done |-> "standardList_clickEUList_done",
     catch |-> "standardList_clickEUList_catch",
     locators |-> <<"euListAnchorExactText", "euListAnchor", "euListExactText",
                    "euListText", "euListCell", "euListAnchor">>,
     before |-> TRUE,
     verified |-> UrlIncludes(page, "list"),
     failure |-> "All EU List click strategies failed",
     tail |-> TRUE,
     prefix |-> "Failed to click EU List link:"] }

\* for (let i = 0; i < selectorStrategies.length && !success; i++) { try {
\* isVisible().catch(() => false); if visible, the calls before the click
\* and await safeClick(locator)
StrategyTry ==
  /\ \E m \in StrategyMethods :
       /\ pc = m.loop
       /\ IF strategy <= Len(m.locators) /\ ~success
            THEN \E isVisibleNow \in Present(page, m.locators[strategy]),
                    resolved \in BOOLEAN :
                   IF isVisibleNow /\ (resolved \/ ~m.before)
                     THEN /\ target' = m.locators[strategy]
                          /\ Call("safeClick", m.clicked)
                          /\ UNCHANGED <<strategy, tried, fvars>>
                     ELSE /\ tried' = Append(tried,
                                        [strategy |-> strategy,
                                         outcome |-> IF isVisibleNow THEN "threw"
                                                     ELSE "notVisible"])
                          /\ strategy' = strategy + 1
                          /\ faults' = IF isVisibleNow THEN faults \cup {"beforeClick"}
                                       ELSE faults
                          /\ lastFault' = IF isVisibleNow THEN PwClosed ELSE lastFault
                          /\ UNCHANGED <<pc, stack, target>>
            ELSE /\ pc' = m.done
                 /\ UNCHANGED <<stack, target, strategy, tried, fvars>>
  /\ UNCHANGED <<exc, ret, page, rvars, hvars, gvars, nvars, timer, domClicked, overlaps,
                 success, expandAttempt, expandError>>

\* safeClick settled: the waits after the click, then the check that sets
\* success and breaks; } catch (err) { } leads to the next strategy
StrategyClickedRethrow ==
  /\ \E m \in StrategyMethods :
       /\ pc = m.clicked
       /\ \E resolved \in BOOLEAN, verified \in m.verified :
            LET outcome == IF exc # None \/ ~resolved THEN "threw"
                           ELSE IF verified THEN "verified" ELSE "unverified"
                rejected == exc = None /\ ~resolved
            IN  /\ tried' = Append(tried, [strategy |-> strategy, outcome |-> outcome])
                /\ success' = (outcome = "verified")
                /\ strategy' = IF outcome = "verified" THEN strategy ELSE strategy + 1
                /\ pc' = IF outcome = "verified" THEN m.done
                          ELSE IF outcome = "threw" THEN m.catch ELSE m.loop
                /\ exc' = IF outcome # "threw" THEN None
                          ELSE IF exc # None THEN exc ELSE PwClosed
                /\ faults' = IF rejected THEN faults \cup {"afterClick"} ELSE faults
                /\ lastFault' = IF rejected THEN PwClosed ELSE lastFault
  /\ UNCHANGED <<stack, ret, page, target, rvars, hvars, gvars, nvars, timer, domClicked,
                 overlaps, expandAttempt, expandError>>
StrategyClicked ==
  /\ \E m \in StrategyMethods :
       /\ pc = m.clicked
       /\ \E resolved \in BOOLEAN, verified \in m.verified :
            LET outcome == IF exc # None \/ ~resolved THEN "threw"
                           ELSE IF verified THEN "verified" ELSE "unverified"
                rejected == exc = None /\ ~resolved
            IN  /\ tried' = Append(tried, [strategy |-> strategy, outcome |-> outcome])
                /\ success' = (outcome = "verified")
                /\ strategy' = IF outcome = "verified" THEN strategy ELSE strategy + 1
                /\ pc' = IF outcome = "verified" THEN m.done ELSE m.loop
                /\ faults' = IF rejected THEN faults \cup {"afterClick"} ELSE faults
                /\ lastFault' = IF rejected THEN PwClosed ELSE lastFault
  /\ exc' = None
  /\ UNCHANGED <<stack, ret, page, target, rvars, hvars, gvars, nvars, timer, domClicked,
                 overlaps, expandAttempt, expandError>>

\* the loop is left: if (!success) throw new Error(...); the calls that
\* follow the loop
StrategyDone ==
  /\ \E m \in StrategyMethods :
       /\ pc = m.done
       /\ \E resolved \in BOOLEAN :
            LET rejected == m.tail /\ ~resolved IN
            /\ exc' = IF rejected THEN PwClosed
                      ELSE IF success THEN None ELSE NewError(<<m.failure>>)
            /\ pc' = IF success /\ ~rejected THEN "return" ELSE m.catch
            /\ faults' = IF rejected THEN faults \cup {"afterLoop"} ELSE faults
            /\ lastFault' = IF rejected THEN PwClosed ELSE lastFault
  /\ UNCHANGED <<stack, ret, page, target, rvars, hvars, gvars, nvars, bvars>>

\* catch (error) { throw new Error(`<prefix> ${error}`) }
StrategyCatch ==
  \E m \in StrategyMethods :
    /\ pc = m.catch
    /\ Catch(m.prefix)

\* navigateToLists: the shortcut when the URL contains 'list' and the
\* Standard Lists menu is visible; the expansion of the Watchlist Manager
\* menu by retry(async () => { safeClick; waitForTimeout; isVisible }, 3,
\* 1000); then the loop over the five strategies
StandardListNavigateToLists ==
  /\ \/ /\ pc = "standardList_navigateToLists"
        /\ \E onList \in UrlIncludes(page, "list"),
              isStandardListsVisible \in Present(page, "standardListsMenu"),
              isWatchlistExpanded \in Present(page, "watchlistManagerExpanded") :
             /\ pc' = IF onList /\ isStandardListsVisible THEN "return"
                      ELSE IF isWatchlistExpanded THEN "standardList_navigateToLists_loop"
                      ELSE "standardList_navigateToLists_expand"
             /\ faults' = IF onList /\ isStandardListsVisible
                          THEN faults \cup {"alreadyOnLists"} ELSE faults
        /\ strategy' = 1 /\ success' = FALSE /\ tried' = <<>>
        /\ expandAttempt' = 1 /\ expandError' = None
        /\ UNCHANGED <<stack, exc, target, lastFault>>
     \/ /\ pc = "standardList_navigateToLists_expand"
        /\ IF LoopGuard(expandAttempt, DefaultMaxRetries)
             THEN /\ target' = "watchlistManagerMenu"
                  /\ Call("safeClick", "standardList_navigateToLists_expanded")
                  /\ UNCHANGED exc
             ELSE /\ exc' = NewError(RetryFailureMessage(DefaultMaxRetries, expandError))
                  /\ pc' = "standardList_navigateToLists_catch"
                  /\ UNCHANGED <<stack, target>>
        /\ UNCHANGED <<fvars, strategy, success, tried, expandAttempt, expandError>>
     \/ /\ pc = "standardList_navigateToLists_expanded"
        /\ \E resolved \in BOOLEAN, expanded \in Present(page, "watchlistManagerExpanded") :
             LET e == IF exc # None THEN exc
                      ELSE IF ~resolved THEN PwClosed
                      ELSE IF ~expanded
                        THEN NewError(<<"Watchlist Manager menu not expanded after click">>)
                      ELSE None
             IN  /\ expandError' = IF e = None THEN expandError
                                   ELSE CaughtError(expandError, e)
                 /\ expandAttempt' = IF e = None THEN expandAttempt ELSE expandAttempt + 1
                 /\ pc' = IF e = None THEN "standardList_navigateToLists_loop"
                          ELSE "standardList_navigateToLists_expand"
                 /\ faults' = IF exc = None /\ ~resolved
                              THEN faults \cup {"waitForTimeout"} ELSE faults
                 /\ lastFault' = IF exc = None /\ ~resolved THEN PwClosed ELSE lastFault
        /\ exc' = None
        /\ UNCHANGED <<stack, target, strategy, success, tried>>
  /\ UNCHANGED <<ret, page, rvars, hvars, gvars, nvars, timer, domClicked, overlaps>>

\* navigateToStandardLists: the shortcut when the URL contains 'standard'
\* and 'list' and the EU List link is visible; then the loop
StandardListNavigateToStandardLists ==
  /\ pc = "standardList_navigateToStandardLists"
  /\ \E onStandard \in UrlIncludes(page, "standard"), onList \in UrlIncludes(page, "list"),
        euListVisible \in Present(page, "euListLink") :
       LET already == onStandard /\ onList /\ euListVisible IN
       /\ pc' = IF already THEN "return" ELSE "standardList_navigateToStandardLists_loop"
       /\ faults' = IF already THEN faults \cup {"alreadyOnStandardLists"} ELSE faults
  /\ strategy' = 1 /\ success' = FALSE /\ tried' = <<>>
  /\ UNCHANGED <<stack, exc, ret, page, target, rvars, hvars, lastFault, gvars, nvars, timer,
                 domClicked, overlaps, expandAttempt, expandError>>

\* clickEUList: the screenshot; safeClick(this.euListLink) when the link is
\* visible, followed by the waits and the screenshot that end the method;
\* the loop over six strategies otherwise
StandardListClickEUList ==
  /\ \/ /\ pc = "standardList_clickEUList"
        /\ \E resolved \in BOOLEAN, isEUListVisible \in Present(page, "euListLink") :
             /\ exc' = IF resolved THEN None ELSE PwClosed
             /\ faults' = IF resolved THEN faults ELSE faults \cup {"screenshot"}
             /\ lastFault' = IF resolved THEN lastFault ELSE PwClosed
             /\ IF ~resolved
                  THEN /\ pc' = "standardList_clickEUList_catch"
                       /\ UNCHANGED <<stack, target>>
                  ELSE IF isEUListVisible
                    THEN /\ target' = "euListLink"
                         /\ Call("safeClick", "standardList_clickEUList_direct")
                    ELSE /\ pc' = "standardList_clickEUList_loop"
                         /\ UNCHANGED <<stack, target>>
        /\ strategy' = 1 /\ success' = FALSE /\ tried' = <<>>
     \/ /\ pc = "standardList_clickEUList_direct"
        /\ \E resolved \in BOOLEAN :
             LET rejected == exc = None /\ ~resolved IN
             /\ exc' = IF rejected THEN PwClosed ELSE exc
             /\ faults' = IF rejected THEN faults \cup {"afterLoop"} ELSE faults
             /\ lastFault' = IF rejected THEN PwClosed ELSE lastFault
             /\ pc' = IF exc = None /\ resolved THEN "return"
                      ELSE "standardList_clickEUList_catch"
        /\ UNCHANGED <<stack, target, strategy, success, tried>>
  /\ UNCHANGED <<ret, page, rvars, hvars, gvars, nvars, timer, domClicked, overlaps,
                 expandAttempt, expandError>>

\* clickMainMenu: nothing to do when the Watchlist Manager menu is visible;
\* otherwise waitForElement and safeClick on the menu button, and a second
\* safeClick when the menu is still not visible
StandardListClickMainMenu ==
  \/ /\ pc = "standardList_clickMainMenu"
     /\ \E watchlistManagerVisible \in Present(page, "watchlistManagerMenu") :
          IF watchlistManagerVisible
            THEN pc' = "return" /\ UNCHANGED <<stack, target>>
            ELSE /\ target' = "mainMenuButton"
                 /\ Call("waitForElement", "standardList_clickMainMenu_waited")
     /\ UNCHANGED <<exc, ret, page, rvars, hvars, fvars, gvars, nvars, bvars>>
  \/ /\ pc = "standardList_clickMainMenu_waited"
     /\ IF exc # None
          THEN pc' = "standardList_clickMainMenu_catch" /\ UNCHANGED stack
          ELSE Call("safeClick", "standardList_clickMainMenu_clicked")
     /\ UNCHANGED <<exc, ret, page, target, rvars, hvars, fvars, gvars, nvars, bvars>>
  \/ /\ pc = "standardList_clickMainMenu_clicked"
     /\ \E resolved \in BOOLEAN, isWatchlistVisible \in Present(page, "watchlistManagerMenu") :
          LET rejected == exc = None /\ ~resolved IN
          /\ exc' = IF rejected THEN PwClosed ELSE exc
          /\ faults' = IF rejected THEN faults \cup {"waitForTimeout"} ELSE faults
          /\ lastFault' = IF rejected THEN PwClosed ELSE lastFault
          /\ IF exc # None \/ ~resolved
               THEN pc' = "standardList_clickMainMenu_catch" /\ UNCHANGED stack
               ELSE IF isWatchlistVisible
                 THEN pc' = "return" /\ UNCHANGED stack
                 ELSE Call("safeClick", "standardList_clickMainMenu_again")
     /\ UNCHANGED <<ret, page, target, rvars, hvars, gvars, nvars, bvars>>
  \/ /\ pc = "standardList_clickMainMenu_again"
     /\ pc' = IF exc # None THEN "standardList_clickMainMenu_catch" ELSE "return"
     /\ UNCHANGED <<stack, exc, ret, page, target, rvars, hvars, fvars, gvars, nvars, bvars>>
  \/ /\ pc = "standardList_clickMainMenu_catch"
     /\ Catch("Failed to click main menu button:")

----------------------------------------------------------------------------
(* pages/watchlistManager/StandardListPage: navigateToEUListWithoutAssertion *)

\* the closure passed to retry(..., 3, 1000): a forced click on the
\* Watchlist Manager item, a script click when the menu did not expand, and
\* an error when it still is not expanded
OpExpandWatchlistManager ==
  /\ pc = "op_expandWatchlistManager"
  /\ \E clickedNow \in {there /\ acted : there \in Present(page, "watchlistManagerItem"),
                                            acted \in BOOLEAN},
        resolved \in BOOLEAN,
        expanded \in Present(page, "watchlistManagerExpanded"),
        jsExpanded \in Present(page, "watchlistManagerExpanded") :
       LET e == IF ~clickedNow THEN PwTimeout
                ELSE IF expanded THEN None
                ELSE IF ~resolved THEN PwClosed
                ELSE IF jsExpanded THEN None
                ELSE NewError(<<"Failed to expand Watchlist Manager menu after multiple attempts">>)
       IN  /\ exc' = e
           /\ outcomes' = Append(outcomes, Settled(e = None, "void", e))
           /\ trace' = trace \o <<"invoke", IF e = None THEN "ok" ELSE "fail">>
           /\ lastFault' = IF e \in {PwTimeout, PwClosed} THEN e ELSE lastFault
           /\ clicked' = IF clickedNow THEN Append(clicked, "watchlistManagerItem")
                         ELSE clicked
  /\ ret' = "void"
  /\ Return
  /\ UNCHANGED <<page, target, rvars, pauses, faults, gvars, step, seqKind, steps, bvars>>

\* Strategy 1, the standard menu path.  A rejection inside the try block
\* leads to catch (strategy1Error); the page.content() before the block and
\* the screenshot inside that catch lead to the catch block of the method
StandardListStrategy1 ==
  /\ \/ /\ pc = "standardList_navigateToEUList"
        /\ \E resolved \in BOOLEAN :
             /\ exc' = IF resolved THEN None ELSE PwClosed
             /\ faults' = IF resolved THEN faults ELSE faults \cup {"content"}
             /\ lastFault' = IF resolved THEN lastFault ELSE PwClosed
             /\ IF resolved
                  THEN /\ steps' = <<"strategy1", "clickMainMenu">>
                       /\ Call("standardList_clickMainMenu", "strategy1_mainMenu")
                  ELSE /\ steps' = <<>>
                       /\ pc' = "strategy3_outer"
                       /\ UNCHANGED stack
        /\ UNCHANGED <<maxRetries, delayMs, opKind>>
     \/ /\ pc = "strategy1_mainMenu"
        /\ \E resolved \in BOOLEAN,
              isWatchlistManagerVisible \in Present(page, "watchlistManagerItem"),
              isWatchlistExpanded \in Present(page, "watchlistManagerExpanded"),
              forced \in {there /\ acted : there \in Present(page, "mainMenuButton"),
                                          acted \in BOOLEAN} :
             LET rejected == exc = None /\ (~resolved \/ (~isWatchlistManagerVisible /\ ~forced))
             IN  /\ exc' = IF rejected THEN PwClosed ELSE exc
                 /\ faults' = IF rejected THEN faults \cup {"afterMainMenu"} ELSE faults
                 /\ lastFault' = IF rejected THEN PwClosed ELSE lastFault
                 /\ IF exc # None \/ rejected
                      THEN /\ pc' = "strategy1_catch"
                           /\ UNCHANGED <<stack, maxRetries, delayMs, opKind>>
                      ELSE IF isWatchlistExpanded
                        THEN /\ pc' = "strategy1_expanded"
                             /\ UNCHANGED <<stack, maxRetries, delayMs, opKind>>
                        ELSE /\ maxRetries' = 3 /\ delayMs' = 1000
                             /\ opKind' = "expandWatchlistManager"
                             /\ Call("retry", "strategy1_expanded")
        /\ UNCHANGED steps
     \/ /\ pc = "strategy1_expanded"
        /\ \E resolved \in BOOLEAN :
             LET rejected == exc = None /\ ~resolved IN
             /\ exc' = IF rejected THEN PwClosed ELSE exc
             /\ faults' = IF rejected THEN faults \cup {"screenshot"} ELSE faults
             /\ lastFault' = IF rejected THEN PwClosed ELSE lastFault
             /\ IF exc # None \/ rejected
                  THEN pc' = "strategy1_catch" /\ UNCHANGED <<stack, steps>>
                  ELSE /\ steps' = Append(steps, "navigateToLists")
                       /\ Call("standardList_navigateToLists", "strategy1_lists")
        /\ UNCHANGED <<maxRetries, delayMs, opKind>>
     \/ /\ pc \in {"strategy1_lists", "strategy1_standardLists"}
        /\ \E resolved \in BOOLEAN, evaluated \in BOOLEAN :
             LET failed == exc # None \/ ~resolved
                 rejected == failed /\ ~evaluated
             IN  /\ exc' = IF rejected THEN PwClosed ELSE None
                 /\ faults' = IF rejected THEN faults \cup {"evaluate"}
                              ELSE IF failed THEN faults \cup {"scriptClick"}
                              ELSE faults
                 /\ lastFault' = IF rejected \/ (exc = None /\ ~resolved) THEN PwClosed
                                 ELSE lastFault
                 /\ IF rejected
                      THEN pc' = "strategy1_catch" /\ UNCHANGED <<stack, steps>>
                      ELSE IF pc = "strategy1_lists"
                        THEN /\ steps' = Append(steps, "navigateToStandardLists")
                             /\ Call("standardList_navigateToStandardLists",
                                     "strategy1_standardLists")
                        ELSE /\ steps' = Append(steps, "clickEUList")
                             /\ Call("standardList_clickEUList", "strategy1_euList")
        /\ UNCHANGED <<maxRetries, delayMs, opKind>>
     \/ /\ pc = "strategy1_euList"
        /\ pc' = IF exc = None THEN "return" ELSE "strategy1_catch"
        /\ UNCHANGED <<stack, exc, fvars, steps, maxRetries, delayMs, opKind>>
  /\ UNCHANGED <<ret, page, target, attempt, lastError, hvars, gvars, step, seqKind, clicked,
                 bvars>>

\* catch (strategy1Error) { screenshot }; Strategy 2: the first visible of
\* three direct links is clicked, or the list URL is built from the current
\* URL and opened; catch (strategy2Error) { screenshot }
StandardListStrategy2 ==
  /\ \/ /\ pc \in {"strategy1_catch", "strategy2_catch"}
        /\ \E resolved \in BOOLEAN :
             /\ exc' = IF resolved THEN None ELSE PwClosed
             /\ faults' = (IF resolved THEN faults ELSE faults \cup {"catchScreenshot"})
                            \cup {IF pc = "strategy1_catch" THEN "strategy1Failed"
                                  ELSE "strategy2Failed"}
             /\ lastFault' = IF resolved THEN lastFault ELSE PwClosed
             /\ pc' = IF ~resolved THEN "strategy3_outer"
                      ELSE IF pc = "strategy1_catch" THEN "strategy2" ELSE "strategy3"
             /\ steps' = IF ~resolved THEN steps
                         ELSE Append(steps, IF pc = "strategy1_catch" THEN "strategy2"
                                            ELSE "strategy3")
        /\ UNCHANGED <<page, clicked>>
     \/ /\ pc = "strategy2"
        /\ \E anchorVisible \in Present(page, "euListAnchor"),
              hrefVisible \in Present(page, "euListHref"),
              resolved \in BOOLEAN,
              onNetreveal \in UrlIncludes(page, "netreveal"),
              onWatchlist \in UrlIncludes(page, "watchlist"),
              pageTextHasEUList \in BOOLEAN :
             LET directLinkFound == anchorVisible \/ hrefVisible
                 opened == ~directLinkFound /\ (onNetreveal \/ onWatchlist)
                 rejected == (directLinkFound \/ opened) /\ ~resolved
                 e == IF rejected THEN PwClosed
                      ELSE IF directLinkFound \/ (opened /\ pageTextHasEUList) THEN None
                      ELSE NewError(<<"Could not find direct link or construct valid URL for EU List">>)
             IN  /\ exc' = e
                 /\ faults' = IF rejected THEN faults \cup {"directLink"} ELSE faults
                 /\ lastFault' = IF e = None THEN lastFault ELSE e
                 /\ clicked' = IF directLinkFound /\ resolved
                               THEN Append(clicked, IF anchorVisible THEN "euListAnchor"
                                                    ELSE "euListHref")
                               ELSE clicked
                 /\ page' = IF opened /\ resolved THEN RealPage ELSE page
                 /\ pc' = IF e = None THEN "return" ELSE "strategy2_catch"
        /\ UNCHANGED steps
  /\ UNCHANGED <<stack, ret, target, rvars, hvars, gvars, step, seqKind, bvars>>

----------------------------------------------------------------------------
(* One call of a method of StandardListPage on a page of the application *)
(* or on a fabricated page.                                               *)

\* the whole navigation is driven on the fabricated pages, the single
\* methods on every page
CallStandardList ==
  /\ pc = "main"
  /\ \E m \in {"standardList_navigateToLists", "standardList_navigateToEUList"} :
       /\ m = "standardList_navigateToEUList" => page.kind = "static"
       /\ seqKind' = m
       /\ Call(m, "main_end")
  /\ UNCHANGED <<exc, ret, page, target, rvars, hvars, fvars, gvars, step, clicked, steps,
                 bvars>>

InitStandardList ==
  /\ InitCommon
  /\ testKind = "none"
  /\ pc = "main"
  /\ page \in {RealPage}
              \cup [kind : {"static"}, title : {<<"NetReveal">>},
                    url : {<<"about:blank">>,
                            <<"https://10.222", ".2.239:8443/", "netreveal", "/", "list">>},
                    dom : SUBSET {"mainMenuButton", "watchlistManagerMenu",
                                  "watchlistManagerExpanded", "listsMenu",
                                  "standardListsMenu", "euListLink", "euListAnchor",
                                  "euNameText"}]

NextStandardList ==
  \/ CallStandardList
  \/ StandardListStrategy1 \/ StandardListStrategy2
  \/ Strategy3Evaluate \/ Strategy3Wait \/ Strategy3Visible
  \/ Strategy3Catch \/ Strategy3OuterCatch
  \/ TimerFires \/ TimerDiscarded
  \/ StandardListClickMainMenu \/ OpExpandWatchlistManager
  \/ StandardListNavigateToLists \/ StandardListNavigateToStandardLists
  \/ StandardListClickEUList
  \/ StrategyTry \/ StrategyClicked \/ StrategyDone \/ StrategyCatch
  \/ ReturnVoid
  \/ SafeClick \/ SafeClickOpWait \/ WaitForElement \/ SafeClickOpClick \/ SafeClickEnd
  \/ RetryEnter \/ RetryInvoke \/ RetrySettled \/ RetryPause \/ RetryThrow

SpecStandardList == InitStandardList /\ [][NextStandardList]_vars

----------------------------------------------------------------------------
(* tests/ui/WLM: getMcpSelector.  A string is a sequence of symbols, the    *)
(* empty sequence standing for '' and for undefined, which the function     *)
(* does not tell apart.                                                     *)

\* String.prototype.toLowerCase
LowerCase(s) ==
  [i \in 1..Len(s) |-> CASE s[i] = "Main"   -> "main"
                         [] s[i] = "Menu"   -> "menu"
                         [] s[i] = "Logout" -> "logout"
                         [] OTHER           -> s[i]]

\* String.prototype.trim
Trim(s) ==
  LET kept == {i \in 1..Len(s) : s[i] # " "} IN
  IF kept = {} THEN <<>>
  ELSE SubSeq(s, CHOOSE i \in kept : \A j \in kept : i <= j,
                 CHOOSE i \in kept : \A j \in kept : j <= i)

\* const selectorMap = {...} of the agency test and of the EU List test
SelectorMap(file) ==
  (<<"username", " ", "field">> :> <<"#forms-text-field-username">>)
  @@ (<<"password", " ", "field">> :> <<"#forms-text-field-password">>)
  @@ (<<"login", " ", "button">> :> <<"button:has-text(\"Login\")">>)
  @@ (<<"main", " ", "menu">> :> <<"#menu-trigger">>)
  @@ (<<"watchlist", " ", "manager", " ", "menu">> :> <<"#home_watchlistmanagement">>)
  @@ (IF file = "agency"
        THEN (<<"synonyms", " ", "menu">>
                :> <<"#home_watchlistmanagement_menu-item_synonyms_path">>)
             @@ (<<"synonyms", " ", "rules", " ", "manager", " ", "menu">>
                :> <<"#home_watchlistmanagement_menu-item_synonyms_path_menu-item_synonym_rules_manager_path">>)
             @@ (<<"weighted", " ", "words", " ", "rule", " ", "set">>
                :> <<"a:has-text(\"Weighted words rule set\")">>)
             @@ (<<"agency", " ", "rule">> :> <<"a:has-text(\"agency rule\")">>)
        ELSE (<<"lists", " ", "menu">>
                :> <<"#home_watchlistmanagement_home_watchlistmanagement_lists">>)
             @@ (<<"standard", " ", "lists", " ", "menu">> :> <<"[id*=\"standard_lists\"]">>)
             @@ (<<"eu", " ", "list">> :> <<"text=EU List">>)
             @@ (<<"eu_name">> :> <<"text=eu_name">>))

\* the try block: the elements of the accessibility tree that match the
\* normalized description, and the selector generated for the first of
\* them.  className of an SVG element is an object, so split throws.
SnapshotSelector(snapshot, normalized) ==
  LET tree == snapshot.accessibilityTree
      Has(v) == v # <<>> /\ Includes(LowerCase(v), normalized)
      Matching(el) ==
        \/ Has(el.textContent) \/ Has(el.id) \/ Has(el.ariaLabel) \/ Has(el.role)
        \/ \E value \in {el.id, el.classAttribute, el.role, el.ariaLabel} : Has(value)
      matchingElements == {i \in 1..Len(tree) : Matching(tree[i])}
      element == tree[CHOOSE i \in matchingElements : \A j \in matchingElements : i <= j]
      isSvg == element.tagName = <<"svg">>
      classes == element.classAttribute
      spaces == {i \in 1..Len(classes) : classes[i] = " "}
      firstSpace == IF spaces = {} THEN Len(classes) + 1
                    ELSE CHOOSE i \in spaces : \A j \in spaces : i <= j
  IN  IF matchingElements = {} THEN [thrown |-> FALSE, selector |-> <<>>]
      ELSE IF element.id # <<>>
        THEN [thrown |-> FALSE, selector |-> <<"#">> \o element.id]
      ELSE IF element.role # <<>> /\ element.textContent # <<>>
        THEN [thrown |-> FALSE,
              selector |-> <<"[role=\"">> \o element.role \o <<"\"]:has-text(\"">>
                             \o element.textContent \o <<"\")">>]
      ELSE IF element.tagName # <<>> /\ element.textContent # <<>>
        THEN [thrown |-> FALSE,
              selector |-> element.tagName \o <<":has-text(\"">> \o element.textContent
                             \o <<"\")">>]
      ELSE IF isSvg THEN [thrown |-> TRUE, selector |-> <<>>]
      ELSE IF classes # <<>>
        THEN [thrown |-> FALSE, selector |-> <<".">> \o SubSeq(classes, 1, firstSpace - 1)]
      ELSE [thrown |-> FALSE, selector |-> <<>>]

\* getMcpSelector: the generated selector, or after no snapshot, no match, no
\* selector or a caught error: selectorMap[description.toLowerCase()] ||
\* `text="${description}"`
GetMcpSelectorFor(file, snapshot, elementDescription) ==
  LET generated == IF snapshot.taken
                   THEN SnapshotSelector(snapshot, Trim(LowerCase(elementDescription)))
                   ELSE [thrown |-> FALSE, selector |-> <<>>]
      key == LowerCase(elementDescription)
  IN  IF ~generated.thrown /\ generated.selector # <<>> THEN generated
      ELSE [thrown |-> FALSE,
            selector |-> IF key \in DOMAIN SelectorMap(file) THEN SelectorMap(file)[key]
                         ELSE <<"text=\"">> \o elementDescription \o <<"\"">>]

\* one call of getMcpSelector(target) with the snapshot stored in the module
CallGetMcpSelector ==
  /\ pc = "main"
  /\ LET result == GetMcpSelectorFor(testKind, lastSnapshot, target) IN
       /\ ret' = result.selector
       /\ exc' = IF result.thrown THEN NewError(<<"TypeError">>) ELSE None
  /\ pc' = "main_end"
  /\ UNCHANGED <<stack, page, target, rvars, hvars, fvars, mcpConnected, lastSnapshot,
                 isVisible, assertError, testStep, testKind, nvars, bvars>>

\* the snapshots hold at most MaxTree elements, each built of a few values
InitSelector ==
  /\ pc = "main" /\ stack = <<>> /\ exc = None /\ ret = <<>>
  /\ page = RealPage
  /\ testKind \in {"agency", "euList"}
  /\ target \in {<<"main", " ", "menu">>, <<"Main", " ", "Menu">>,
                 <<" ", "main", " ", "menu">>, <<"Logout">>, <<"eu_name">>, <<>>}
  /\ \E n \in 0..MaxTree :
       lastSnapshot \in
         [taken : BOOLEAN,
          accessibilityTree :
            [1..n -> [tagName : {<<"a">>, <<"svg">>},
                      id : {<<>>, <<"logout">>},
                      role : {<<>>, <<"button">>},
                      textContent : {<<>>, <<"Main", " ", "Menu">>},
                      ariaLabel : {<<>>, <<"Logout">>},
                      classAttribute : {<<>>, <<"icon", " ", "btn">>, <<" ", "btn">>}]]]
  /\ maxRetries = DefaultMaxRetries /\ delayMs = DefaultDelayMs
  /\ opKind = "generic" /\ attempt = 1 /\ lastError = None
  /\ outcomes = <<>> /\ pauses = <<>> /\ trace = <<>>
  /\ faults = {} /\ lastFault = None
  /\ mcpConnected = TRUE
  /\ isVisible = FALSE /\ assertError = None
  /\ step = 0 /\ seqKind = "none" /\ clicked = <<>> /\ steps = <<>>
  /\ testStep = 0
  /\ timer = 0 /\ domClicked = <<>> /\ overlaps = {}
  /\ strategy = 0 /\ success = FALSE /\ tried = <<>>
  /\ expandAttempt = 0 /\ expandError = None

SpecSelector == InitSelector /\ [][CallGetMcpSelector]_vars

----------------------------------------------------------------------------
(* Properties of retry and safeClick, checked under SpecRetry *)

Count(s, x) == Cardinality({i \in 1..Len(s) : s[i] = x})

\* retry (or safeClick around it) has settled and control is back at the caller
HelperSettled == pc \in {"safeClick_end", "main_end"}

\* the last invocation of operation resolved
LastResolved == Len(outcomes) > 0 /\ outcomes[Len(outcomes)].ok

\* C1: with maxRetries >= 1, retry invokes operation at most maxRetries
\* times; no invocation follows one that resolved: once an invocation has
\* resolved, retry only returns, and it returns that invocation's value.
C1_AtMostMaxRetriesStopAtSuccess ==
  maxRetries >= 1 =>
    /\ Count(trace, "invoke") <= maxRetries
    /\ Len(outcomes) <= maxRetries
    /\ \A i \in 1..Len(outcomes) : outcomes[i].ok => i = Len(outcomes)
    /\ LastResolved =>
         /\ pc \in {"retry_settled", "safeClick_end", "main_end"}
         /\ exc = None
         /\ ret = outcomes[Len(outcomes)].val

\* two rejections, then a resolution that ends a retry allowed three attempts
C1_Witness ==
  /\ pc = "main_end" /\ opKind = "generic" /\ maxRetries = 3
  /\ Len(outcomes) = 2 /\ ~outcomes[1].ok /\ outcomes[2].ok
  /\ ret = outcomes[2].val

\* C2: with maxRetries >= 1, retry rejects if and only if all maxRetries
\* invocations rejected, and then with the Error 'Operation failed after
\* <maxRetries> attempts. Last error: <e>', e the error of the last one.
C2_RejectsIffAllRejected ==
  (HelperSettled /\ maxRetries >= 1) =>
    /\ (exc # None) <=>
         (Len(outcomes) = maxRetries /\ \A i \in 1..Len(outcomes) : ~outcomes[i].ok)
    /\ exc # None =>
         /\ exc.name = "Error:"
         /\ exc.message =
              <<"Operation failed after", NumStr(maxRetries), "attempts. Last error:">>
                \o <<outcomes[maxRetries].err.name>> \o outcomes[maxRetries].err.message

\* three rejections, the last with another error than the first
C2_Witness ==
  /\ pc = "main_end" /\ opKind = "generic" /\ maxRetries = 3
  /\ exc # None /\ Len(outcomes) = 3
  /\ outcomes[1].err # outcomes[3].err

\* C3: every pause lasts delayMs whatever the attempt; a pause directly
\* follows a failed attempt that is not the last one, never a success; k
\* failures and a success make k pauses, maxRetries failures make
\* maxRetries - 1 pauses and the last failure is followed by none.
C3_FixedPauseBetweenAttempts ==
  /\ \A i \in 1..Len(pauses) : pauses[i] = delayMs
  /\ Len(pauses) = Count(trace, "pause")
  /\ \A i \in 1..Len(trace) :
       trace[i] = "pause" =>
         /\ i > 1 /\ trace[i - 1] = "fail"
         /\ Count(SubSeq(trace, 1, i), "fail") < maxRetries
  /\ (HelperSettled /\ maxRetries >= 1) =>
       IF exc = None
         THEN Len(pauses) = Count(trace, "fail")
         ELSE /\ Count(trace, "fail") = maxRetries
              /\ Len(pauses) = maxRetries - 1
              /\ trace[Len(trace)] = "fail"

\* a success after two failures, with two pauses of a non-zero delay
C3_Witness ==
  /\ pc = "main_end" /\ opKind = "generic" /\ exc = None
  /\ maxRetries = 4 /\ delayMs = DefaultDelayMs
  /\ Count(trace, "fail") = 2 /\ pauses = <<DefaultDelayMs, DefaultDelayMs>>

\* C4: safeClick makes at most 3 attempts; a click is issued only directly
\* after the waitForElement of the same attempt succeeded; nothing is
\* attempted after a click that succeeded, so at most one click succeeds; it
\* rejects only when all 3 attempts failed, and resolves on a successful click.
C4_SafeClickAttempts ==
  opKind = "waitClick" =>
    /\ Count(trace, "invoke") <= 3
    /\ \A i \in 1..Len(trace) :
         /\ trace[i] \in {"clickOk", "clickFail"} =>
              i > 2 /\ trace[i - 1] = "waitOk" /\ trace[i - 2] = "invoke"
         /\ trace[i] = "clickOk" =>
              \A j \in (i + 1)..Len(trace) : trace[j] = "ok"
    /\ Count(trace, "clickOk") <= 1
    /\ pc = "main_end" =>
         /\ (exc # None) <=> (Count(trace, "fail") = 3 /\ Count(trace, "clickOk") = 0)
         /\ (exc = None) <=> (Count(trace, "clickOk") = 1)

\* a third attempt that clicks, after a failed wait and a failed click
C4_Witness ==
  /\ pc = "main_end" /\ opKind = "waitClick" /\ exc = None
  /\ trace = <<"invoke", "waitFail", "fail", "pause",
               "invoke", "waitOk", "clickFail", "fail", "pause",
               "invoke", "waitOk", "clickOk", "ok">>

----------------------------------------------------------------------------
(* Properties of LoginPage and of the test 'Verify agency rule is present *)
(* in Weighted words rule set' (specification Spec)                        *)

\* the test body is between the call of TestBody[n] settling and the next call
AfterTestCall(n) == pc = "test" /\ testKind = "agency" /\ testStep = n

LoginStepFailures == {"enterUsername", "enterPassword", "clickLogin", "loginFailed"}

\* C5: login rejects only if page.setContent failed; when one of its steps
\* failed (username, password, click, 'Login failed') and setContent
\* succeeded, login has returned normally and the page is the fabricated
\* dashboard.
C5_LoginFallsBackToMockDashboard ==
  AfterTestCall(3) =>
    /\ exc # None => "setContent" \in faults
    /\ (faults \cap LoginStepFailures # {} /\ "setContent" \notin faults) =>
         /\ exc = None
         /\ page = SetContent(page, <<"NetReveal", "Dashboard">>, MockDashboardDom)

C5_Witness ==
  /\ AfterTestCall(3)
  /\ "clickLogin" \in faults /\ "setContent" \notin faults
  /\ exc = None
  /\ page.title = <<"NetReveal", "Dashboard">> /\ "h1MockDashboard" \in page.dom

\* C6 (as the claim states it): after navigateToLoginPage, a failed goto
\* with a successful setContent leaves the page titled 'NetReveal Test
\* Mode', the failed goto alone is no rejection, and a username field that
\* was not visible is never followed by a rejection.
C6_NavigateToLoginPageTolerates ==
  AfterTestCall(1) =>
    /\ ("goto" \in faults /\ "setContent" \notin faults) =>
         page.title = <<"NetReveal", "Test", "Mode">>
    /\ faults = {"goto"} => exc = None
    /\ "usernameHidden" \in faults => exc = None

\* C7 (as the claim states it): a run of the test in which page.goto failed
\* and no other page call did ends passed.
C7_UnreachableServerTestPasses ==
  (pc \in {"test_passed", "test_failed"} /\ faults = {"goto"}) => pc = "test_passed"

\* what the test does instead: after a failed goto it never passes
C7_UnreachableServerTestNeverPasses ==
  "goto" \in faults => pc # "test_passed"

----------------------------------------------------------------------------
(* Properties of WatchlistManagerPage (specification SpecNav) *)

\* isRunningInMockMode has returned to the caller
MockModeReturned == pc = "main_end" /\ ret \in {"true", "false"}

\* C8: on a page whose content is known and with no query throwing,
\* isRunningInMockMode returns true exactly when the title contains 'Mock'
\* or 'Test Mode', or the URL contains 'mock=true', starts with 'data:' or
\* contains 'about:blank', or one of the three mock elements exists; a
\* 'netreveal' or 'https://10.222' URL makes no difference.
C8_MockModeExactly ==
  (MockModeReturned /\ page.kind = "static" /\ "mockQuery" \notin faults) =>
    (ret = "true" <=>
       \/ Includes(page.title, <<"Mock">>) \/ Includes(page.title, <<"Test", "Mode">>)
       \/ Includes(page.url, <<"mock=true">>)
       \/ (page.url # <<>> /\ Head(page.url) = "data:")
       \/ Includes(page.url, <<"about:blank">>)
       \/ page.dom \cap {"mockIndicator", "h1MockDashboard", "pMockMode"} # {})

C8_Witness ==
  /\ MockModeReturned /\ page.kind = "static" /\ "mockQuery" \notin faults
  /\ page.title = <<"NetReveal">>
  /\ Includes(page.url, <<"netreveal">>) /\ Includes(page.url, <<"https://10.222">>)
  /\ page.dom = {"pMockMode"}
  /\ ret = "true"

\* C9: isRunningInMockMode never rejects, and returns true when one of its
\* queries threw.
C9_MockModeNeverRejects ==
  MockModeReturned =>
    /\ exc = None
    /\ "mockQuery" \in faults => ret = "true"

C9_Witness ==
  /\ MockModeReturned
  /\ "mockQuery" \in faults /\ lastFault = PwClosed
  /\ page.title = <<"NetReveal">> /\ page.url = <<"https://example.test/">>
  /\ page.dom = {}
  /\ ret = "true" /\ exc = None

\* the seven methods: the labels inside the try body where an awaited call
\* has settled, the label of the catch block, and the prefix of its message
C10_Methods ==
  { [inner |-> {"clickMainMenu_waited", "clickMainMenu_clicked"},
     catch |-> "clickMainMenu_catch",
     prefix |-> "Failed to click main menu button:"],
    [inner |-> {"navigateToWatchlistManager_clicked"},
     catch |-> "navigateToWatchlistManager_catch",
     prefix |-> "Failed to navigate to Watchlist Manager:"],
    [inner |-> {"navigateToSynonyms_clicked"},
     catch |-> "navigateToSynonyms_catch",
     prefix |-> "Failed to navigate to Synonyms:"],
    [inner |-> {"navigateToSynonymsRulesManager_clicked"},
     catch |-> "navigateToSynonymsRulesManager_catch",
     prefix |-> "Failed to navigate to Synonyms Rules Manager:"],
    [inner |-> {"sortNameColumnIfNeeded_first", "sortNameColumnIfNeeded_second"},
     catch |-> "sortNameColumnIfNeeded_catch",
     prefix |-> "Failed to sort Name column:"],
    [inner |-> {"clickWeightedWordsRuleSet_clicked"},
     catch |-> "clickWeightedWordsRuleSet_catch",
     prefix |-> "Failed to click 'Weighted words rule set' link:"],
    [inner |-> {"assertAgencyRulePresent"},
     catch |-> "assertAgencyRulePresent_catch",
     prefix |-> "Assertion failed: 'agency rule' is not visible:"] }

\* a rejected inner step leads to the catch block and nowhere else; the catch
\* block rejects to the caller with the prefix followed by the caught error
C10_Step ==
  \A m \in C10_Methods :
    /\ (pc \in m.inner /\ exc # None) => (pc' = m.catch /\ exc' = exc)
    /\ (pc' = m.catch) => exc' # None
    /\ (pc = m.catch) =>
         /\ exc' = NewError(<<m.prefix>> \o ErrToString(exc))
         /\ pc' = Head(stack)
         /\ pc' = "sequence_stepped"

\* a navigation sequence has returned to the caller
SequenceReturned == pc = "main_end" /\ seqKind # "none"

\* the rejection of a sequence carries the sequence's prefix, the prefix of
\* the step that failed and the text of the innermost error
C10_EndToEnd ==
  /\ pc = "return" => exc = None
  /\ (SequenceReturned /\ exc # None) =>
       /\ Head(exc.message) = "Navigation sequence failed:"
       /\ Includes(exc.message, ErrToString(lastFault))
       /\ lastFault # None
       /\ \/ Len(exc.message) = 1 + Len(ErrToString(lastFault))
          \/ \E m \in C10_Methods : exc.message[3] = m.prefix

\* C10: each of the seven methods, when an inner step rejects, rejects with
\* new Error(prefix + text of the original error) and never returns
\* normally; through the navigation sequence the text of the innermost
\* cause is contained in the outermost message.
C10_RethrowWithPrefix == []C10_EndToEnd /\ [][C10_Step]_vars

C10_Witness ==
  /\ SequenceReturned
  /\ seqKind = "navigateToSynonymRulesWithoutAssertion"
  /\ exc = NewError(<<"Navigation sequence failed:", "Error:",
                      "Failed to sort Name column:", "Error:">>
                    \o RetryFailureMessage(3,
                         NewError(<<"Element wait timed out:">> \o ErrToString(PwTimeout))))

----------------------------------------------------------------------------
(* Properties of StandardListPage's Strategy 3 (specification SpecStrategy3) *)

\* C11 (as the claim states it): no action scheduled inside the browser runs
\* while a call on the page is in progress.
C11_PageDrivenSequentially == overlaps = {}

----------------------------------------------------------------------------
(* Properties of the navigation sequences (specification SpecNav) *)

IsPrefix(s, t) == Len(s) <= Len(t) /\ s = SubSeq(t, 1, Len(s))

C12_Order ==
  << "clickMainMenu", "navigateToWatchlistManager", "navigateToSynonyms",
     "navigateToSynonymsRulesManager", "sortNameColumnIfNeeded",
     "clickWeightedWordsRuleSet", "assertAgencyRulePresent" >>

\* the steps a sequence of the given kind has to run
C12_Expected(kind) ==
  IF kind = "navigateToSynonymRulesAndAssert" THEN C12_Order ELSE SubSeq(C12_Order, 1, 6)

C12_Clicks ==
  << "mainMenuButton", "watchlistManagerMenu", "synonymsMenu",
     "synonymsRulesManagerMenu", "weightedWordsRuleSetLink" >>

\* the steps started so far are an initial part of the fixed order; a
\* sequence that returned normally ran all of them (and, outside mock mode,
\* clicked the menus in that order), one that rejected says so
C12_State ==
  seqKind # "none" =>
    /\ IsPrefix(steps, C12_Expected(seqKind))
    /\ (SequenceReturned /\ exc = None) =>
         /\ steps = C12_Expected(seqKind)
         /\ ~TitleIsMock(page.title) =>
              SelectSeq(clicked, LAMBDA c : c # "sortColumnHeading") = C12_Clicks
    /\ (SequenceReturned /\ exc # None) => Head(exc.message) = "Navigation sequence failed:"

\* a step starts only when nothing is rejected, and after a rejected step or
\* wait no step starts any more
C12_Step ==
  /\ steps' # steps => (exc = None /\ exc' = None)
  /\ (seqKind # "none" /\ pc \in {"sequence_catch", "main_end"}) => steps' = steps
  /\ (pc = "sequence_stepped" /\ pc' \notin {"sequence_next", "return"}) =>
       (pc' = "sequence_catch" /\ exc' # None)

\* C12: navigateToSynonymRulesAndAssert runs its seven steps in the fixed
\* order, each only after the previous step and its network-idle wait
\* succeeded; the first failure aborts the rest with 'Navigation sequence
\* failed: ...'; navigateToSynonymRulesWithoutAssertion is the same sequence
\* without the final assertion.
C12_FixedOrder == []C12_State /\ [][C12_Step]_vars

C12_Witness ==
  /\ SequenceReturned /\ exc = None
  /\ seqKind = "navigateToSynonymRulesAndAssert"
  /\ steps = C12_Order
  /\ clicked = << "mainMenuButton", "watchlistManagerMenu", "synonymsMenu",
                  "synonymsRulesManagerMenu", "sortColumnHeading",
                  "weightedWordsRuleSetLink" >>

\* sortNameColumnIfNeeded has settled in the sequence
SortSettled ==
  /\ pc = "sequence_stepped"
  /\ steps # <<>> /\ steps[Len(steps)] = "sortNameColumnIfNeeded"

SortClicks == Count(clicked, "sortColumnHeading")

----------------------------------------------------------------------------
(* The failure demonstration test, checked under Spec *)

\* C14: every execution of the test 'Demonstrate enhanced error messaging for
\* incorrect element selection' ends with the test throwing, whatever the
\* page under test contains: the test never ends passed.
C14_DemonstrationAlwaysThrows ==
  testKind = "failureDemo" => pc # "test_passed"

----------------------------------------------------------------------------
(* performEnhancedAgencyRuleAssertion, checked under Spec *)

\* the report of the step that failed, if one did
C15_Report ==
  IF "existenceFailed" \in faults THEN ElementNotFound
  ELSE IF "visibilityFailed" \in faults THEN ElementNotVisible
  ELSE IF "textFailed" \in faults THEN TextMismatch
  ELSE None

\* C15: the three steps run in the order existence, visibility (at most 3
\* attempts under retry), text; a failed step throws its own error report
\* and no later step runs; the function returns normally only if all three
\* passed.
C15_FailedStepThrowsItsReport ==
  /\ (pc = "performEnhancedAgencyRuleAssertion_catch" /\ C15_Report # None)
        => exc = C15_Report
  /\ "existenceFailed" \in faults
        => /\ opKind # "visible"
           /\ {"visibilityFailed", "textFailed", "textContent"} \cap faults = {}
  /\ "visibilityFailed" \in faults => {"textFailed", "textContent"} \cap faults = {}

----------------------------------------------------------------------------
(* LoginPage.isLoggedIn, checked under Spec *)

\* the test's call of isLoggedIn has settled
IsLoggedInSettled ==
  pc = "test" /\ testStep > 0 /\ TestBody(testKind)[testStep] = "isLoggedIn"

\* C16: isLoggedIn never rejects; on a page whose title contains 'Mock' or
\* 'Test Mode' it returns true whatever its queries return or throw;
\* otherwise it returns true exactly when one of the three indicators was
\* found.
C16_IsLoggedInVerdict ==
  IsLoggedInSettled =>
    /\ exc = None
    /\ TitleIsMock(page.title) => ret = "true"
    /\ ~TitleIsMock(page.title) => (ret = "true" <=> "indicatorFound" \in faults)

----------------------------------------------------------------------------
(* The EU List page object and test, checked under SpecEU *)

\* the page object method called on its own has settled
EUMethodSettled(m) == pc = "main_end" /\ seqKind = m

\* C17: every rejection of assertEuNamePresent carries a message containing
\* 'EU List Validation Failed': its own errors are re-thrown unchanged and
\* every other error is replaced by the generic one.
C17_EveryRejectionIsValidationError ==
  (EUMethodSettled("assertEuNamePresent") /\ exc # None) => IsEuValidationError(exc)

\* the step 'Verify eu_name presence in EU List' is in progress
InVerifyStep == testKind = "euList" /\ testStep = Len(TestBody("euList"))

C18_Generic ==
  EuValidationFailed("The test was unable to verify the presence of 'eu_name' text")

\* the step ends as performEnhancedEuNameAssertion did, and its catch
\* replaces an error without the text by the generic one
C18_Step ==
  /\ (InVerifyStep /\ pc = "test")
       => pc' = IF exc = None THEN "test_passed" ELSE "test_catch"
  /\ (InVerifyStep /\ pc = "test_catch")
       => /\ pc' = "test_failed"
          /\ exc' = IF IsEuValidationError(exc) THEN exc ELSE C18_Generic

\* C18: every error that leaves the step 'Verify eu_name presence in EU
\* List' contains 'EU List Validation Failed'; an error of
\* performEnhancedEuNameAssertion without that text (its reports included)
\* is replaced by the fixed generic message; the step succeeds exactly when
\* performEnhancedEuNameAssertion returned normally.
C18_VerifyStepErrors ==
  /\ []((InVerifyStep /\ pc = "test_failed") => IsEuValidationError(exc))
  /\ []((InVerifyStep /\ pc = "test_passed") => exc = None)
  /\ [][C18_Step]_vars

C18_Witness ==
  /\ InVerifyStep /\ pc = "test_failed"
  /\ lastFault = ElementNotVisible
  /\ exc = C18_Generic

\* the test's call of analyzePage has settled
AnalyzePageSettled ==
  pc = "test" /\ testStep > 0 /\ TestBody(testKind)[testStep] = "analyzePage"

\* C19: mcpConnected is true whenever analyzePage reaches its connection
\* check, so the fallback branch is never executed; analyzePage never
\* rejects and returns the snapshot or null.
C19_FallbackNeverExecuted ==
  /\ "mcpFallback" \notin faults
  /\ AnalyzePageSettled =>
       /\ exc = None
       /\ ret \in {"snapshot", "null"}

C19_Witness ==
  /\ AnalyzePageSettled /\ testKind = "euList" /\ testStep = 2
  /\ "mcpConnect" \in faults /\ mcpConnected
  /\ ret = "snapshot" /\ lastSnapshot = "snapshot"

C20_Required == {"mainMenuButton", "watchlistManagerMenu", "listsMenu"}

C20_Settled ==
  /\ EUMethodSettled("navigateToEUListWithoutAssertion")
  /\ page.kind = "static" /\ "euListMockMode" \in faults

C21_Order ==
  << "clickMainMenu", "navigateToWatchlistManager", "navigateToLists",
     "navigateToStandardLists", "navigateToEUList" >>

C21_Catch == "navigateToEUListWithoutAssertion_catch"

\* outside mock mode the steps started so far are an initial part of the
\* fixed order, and a call that has returned normally ran all five
C21_State ==
  seqKind = "navigateToEUListWithoutAssertion" =>
    /\ IsPrefix(steps, C21_Order)
    /\ "euListMockMode" \in faults => steps = <<>>
    /\ (pc \in {"main_end", "test"} /\ exc = None /\ "euListMockMode" \notin faults)
         => steps = C21_Order

\* a settled step is followed by the next one whatever the wait for network
\* idle did, a rejected step by the catch block and by no further step, and
\* the catch block throws the prefixed error whatever the screenshot did
C21_Step ==
  /\ (pc = "sequence_stepped" /\ seqKind = "navigateToEUListWithoutAssertion")
       => /\ exc = None => (pc' \in {"sequence_next", "return"} /\ exc' = None)
          /\ exc # None => (pc' = C21_Catch /\ exc' = exc)
  /\ (seqKind = "navigateToEUListWithoutAssertion" /\ steps' # steps)
       => (exc = None /\ pc # C21_Catch)
  /\ pc = C21_Catch
       => /\ exc' = Wrap("Navigation sequence to EU List failed:", exc)
          /\ steps' = steps
          /\ pc' \in {"main_end", "test"}

\* C21: outside mock mode navigateToEUListWithoutAssertion runs its five
\* steps in the fixed order; a network-idle timeout between two steps never
\* aborts the sequence; a rejected step aborts all later steps; every
\* failure is rejected as 'Navigation sequence to EU List failed: <original
\* error>', also when the failure screenshot fails.
C21_EUListSequence == []C21_State /\ [][C21_Step]_vars

C21_Witness ==
  /\ EUMethodSettled("navigateToEUListWithoutAssertion")
  /\ steps = SubSeq(C21_Order, 1, 3)
  /\ {"idleTimeoutBetweenSteps", "failureScreenshot"} \subseteq faults
  /\ exc = Wrap("Navigation sequence to EU List failed:",
                Wrap("Failed to navigate to Lists:", lastFault))

C22_Methods == {m \in ListMethods : m.swallow}

C22_Present(m) == page.kind = "static" => m.maybeInMock \in page.dom

C22_Absent(m) == page.kind = "static" => m.maybeInMock \notin page.dom

\* the three ways out of the inner catch block: the error dropped, the error
\* re-thrown, and the rejection of the count() query itself
C22_Swallowed(m) == exc' = None /\ pc' = "return" /\ C22_Present(m)

C22_Rethrown(m) == exc' = exc /\ pc' = m.catch /\ C22_Absent(m)

C22_CountRejected(m) == exc' = PwClosed /\ pc' = m.catch /\ "count" \in faults'

C22_Wrapped ==
  \A m \in C22_Methods : pc = m.catch => exc' = Wrap(m.prefix, exc)

\* C22 as stated: in normal mode a failed wait-and-click of navigateToLists
\* or navigateToEUList is swallowed if and only if the target element is in
\* the DOM, and re-thrown with the method's prefix when it is absent.
C22_SwallowedIffPresent ==
  [][ /\ \A m \in C22_Methods : (pc = m.clicked /\ exc # None) =>
             (C22_Swallowed(m) \/ C22_Rethrown(m))
      /\ C22_Wrapped ]_vars

\* C22: in normal mode a failed wait-and-click of navigateToLists or
\* navigateToEUList is swallowed only if the target element is in the DOM
\* and, unless the count() query of the catch block itself rejects, whenever
\* it is there; when the element is absent the original error is re-thrown
\* with the method's prefix; the method returns normally only if the click
\* succeeded or the element was present.
C22_SwallowedOnlyIfPresent ==
  [][ /\ \A m \in C22_Methods : pc = m.clicked =>
             IF exc = None THEN exc' = None /\ pc' = "return"
             ELSE C22_Swallowed(m) \/ C22_Rethrown(m) \/ C22_CountRejected(m)
      /\ C22_Wrapped ]_vars

C22_Witness ==
  /\ EUMethodSettled("navigateToEUList")
  /\ page.kind = "static"
  /\ "eu_list_item" \in page.dom
  /\ "swallowed" \in faults
  /\ exc = None

C23_Method == CHOOSE m \in StrategyMethods : m.name = "standardList_navigateToLists"

C23_AllFailed ==
  Wrap(C23_Method.prefix, NewError(<<"All Lists menu click strategies failed">>))

C23_Verified == \E k \in 1..Len(tried) : tried[k].outcome = "verified"

\* the loop of navigateToLists is running or was left
C23_InLoop ==
  /\ seqKind = "standardList_navigateToLists"
  /\ pc \notin {"main", "standardList_navigateToLists",
                "standardList_navigateToLists_expand",
                "standardList_navigateToLists_expanded"}
  /\ "alreadyOnLists" \notin faults
  /\ ~(pc \in {"standardList_navigateToLists_catch", "main_end"} /\ tried = <<>>)

C23_State ==
  C23_InLoop =>
    /\ \A k \in 1..Len(tried) :
         /\ tried[k].strategy = k
         /\ tried[k].outcome = "verified" => k = Len(tried)
    /\ Len(tried) <= Len(C23_Method.locators)
    /\ success <=> C23_Verified
    /\ pc = "main_end" =>
         /\ C23_Verified \/ Len(tried) = Len(C23_Method.locators)
         /\ exc = C23_AllFailed <=> ~C23_Verified
         /\ exc = None <=> C23_Verified

C23_Step ==
  (seqKind = "standardList_navigateToLists" /\ pc = C23_Method.loop) =>
    /\ (clicked' # clicked \/ pc' = "safeClick") => tried' = tried
    /\ pc' = "safeClick" =>
         (target' = C23_Method.locators[Len(tried) + 1] /\ ~C23_Verified)
    /\ tried' # tried =>
         /\ tried' = Append(tried, [strategy |-> Len(tried) + 1, outcome |-> "notVisible"])
         /\ pc' = C23_Method.loop

\* C23: StandardListPage.navigateToLists, past its shortcut and the menu
\* expansion, tries its five locator strategies in the order 1..5, skips a
\* strategy whose locator is not visible without clicking, stops at the
\* first strategy whose click is followed by a visible Standard Lists menu,
\* rejects with 'All Lists menu click strategies failed' exactly when no
\* strategy was verified, and goes on to the next strategy after an
\* exception inside one.
C23_FiveStrategiesInOrder == []C23_State /\ [][C23_Step]_vars

C23_Witness ==
  /\ seqKind = "standardList_navigateToLists" /\ pc = "main_end"
  /\ exc = None
  /\ Len(tried) = 4
  /\ tried[1].outcome = "notVisible"
  /\ tried[2].outcome = "threw"
  /\ tried[3].outcome = "unverified"
  /\ tried[4].outcome = "verified"
  /\ clicked = <<C23_Method.locators[3], C23_Method.locators[4]>>

C24_Started(s) == \E i \in 1..Len(steps) : steps[i] = s

C24_AllFailed == "All navigation strategies to EU List failed:"

C24_State ==
  seqKind = "standardList_navigateToEUList" =>
    /\ C24_Started("strategy2") => "strategy1Failed" \in faults
    /\ C24_Started("strategy3") => {"strategy1Failed", "strategy2Failed"} \subseteq faults
    /\ (pc = "main_end" /\ exc # None /\ Head(exc.message) = C24_AllFailed)
         => (C24_Started("strategy3") /\ {"strategy1Failed", "strategy2Failed"} \subseteq faults)

C24_Step ==
  /\ (pc = "strategy1_lists" /\ exc # None)
       => pc' = "standardList_navigateToStandardLists"
  /\ (pc = "strategy1_standardLists" /\ exc # None)
       => pc' = "standardList_clickEUList"

\* C24 as stated: StandardListPage.navigateToEUListWithoutAssertion tries
\* strategy 2 only after strategy 1 failed and strategy 3 only after both
\* failed, rejects with 'All navigation strategies to EU List failed' only
\* when all three failed, and inside strategy 1 a failure of navigateToLists
\* or navigateToStandardLists still leads to the next step of the strategy.
C24_ThreeStrategiesInOrder == []C24_State /\ [][C24_Step]_vars

C25_Tree == lastSnapshot.accessibilityTree

C25_Matches(el) ==
  \E v \in {el.textContent, el.id, el.ariaLabel, el.role, el.classAttribute} :
    v # <<>> /\ Includes(LowerCase(v), Trim(LowerCase(target)))

C25_MatchingElements == {i \in 1..Len(C25_Tree) : C25_Matches(C25_Tree[i])}

C25_First ==
  C25_Tree[CHOOSE i \in C25_MatchingElements : \A j \in C25_MatchingElements : i <= j]

\* the class names of an element: the parts of its class attribute between
\* the spaces
C25_ClassNames(el) == SelectSeq(el.classAttribute, LAMBDA c : c # " ")

\* the selector the priority list gives for an element, <<>> when none:
\* className of an SVG element is not a string and ends in the catch block
C25_Generated(el) ==
  IF el.id # <<>> THEN <<"#">> \o el.id
  ELSE IF el.role # <<>> /\ el.textContent # <<>>
    THEN <<"[role=\"">> \o el.role \o <<"\"]:has-text(\"">> \o el.textContent \o <<"\")">>
  ELSE IF el.textContent # <<>>
    THEN el.tagName \o <<":has-text(\"">> \o el.textContent \o <<"\")">>
  ELSE IF el.tagName # <<"svg">> /\ C25_ClassNames(el) # <<>>
    THEN <<".", Head(C25_ClassNames(el))>>
  ELSE <<>>

C25_Fallback ==
  IF LowerCase(target) \in DOMAIN SelectorMap(testKind)
    THEN SelectorMap(testKind)[LowerCase(target)]
    ELSE <<"text=\"">> \o target \o <<"\"">>

C25_UsesSnapshot ==
  /\ lastSnapshot.taken
  /\ C25_MatchingElements # {}
  /\ C25_Generated(C25_First) # <<>>

\* C25 as stated: getMcpSelector uses the first element of the snapshot that
\* matches the lower-cased, trimmed description and generates '#id', else
\* role plus text, else tag plus text, else the first class name; without
\* snapshot, match or selector, or after an error, it returns the
\* selectorMap entry of the lower-cased description or text="<description>";
\* it always returns a non-empty selector and never throws.
C25_SelectorByPriority ==
  pc = "main_end" =>
    /\ exc = None
    /\ ret # <<>>
    /\ ret = IF C25_UsesSnapshot THEN C25_Generated(C25_First) ELSE C25_Fallback

C26_Retried == "performEnhancedAgencyRuleAssertion_retried"

\* every attempt of the visibility check of the current retry call failed
C26_NeverSeenVisible ==
  /\ Len(outcomes) = DefaultMaxRetries
  /\ \A i \in 1..Len(outcomes) : ~outcomes[i].ok

\* when retry has settled, isVisible is true or retry rejected, never both
C26_State ==
  pc = C26_Retried =>
    /\ isVisible <=> exc = None
    /\ isVisible <=> ~C26_NeverSeenVisible

\* lastError is set exactly when isVisible is false, and then the guard
\* throws the visibility report instead of reading the text or returning
C26_Step ==
  pc = C26_Retried =>
    /\ isVisible' = isVisible
    /\ assertError' # None <=> ~isVisible
    /\ ~isVisible =>
         /\ exc' = ElementNotVisible
         /\ pc' = "performEnhancedAgencyRuleAssertion_catch"
         /\ "visibilityFailed" \in faults'
    /\ C26_NeverSeenVisible => (pc' # "return" /\ exc' = ElementNotVisible)

\* C26: in performEnhancedAgencyRuleAssertion and
\* performEnhancedEuNameAssertion, after the retried visibility check,
\* exactly one of 'isVisible is true' and 'lastError is set' holds, so the
\* guard (!isVisible && lastError) fires whenever the element was not seen
\* visible, and neither the text check nor the normal return is reached
\* after three failed visibility attempts.
C26_ExactlyOneOfVisibleAndError == []C26_State /\ [][C26_Step]_vars

C26_Witness ==
  /\ pc = "performEnhancedAgencyRuleAssertion_catch"
  /\ C26_NeverSeenVisible
  /\ ~isVisible /\ assertError # None
  /\ exc = ElementNotVisible

C27_InRetry == pc \in {"retry_loop", "retry_settled", "retry_pause", "op_generic"}

\* the operation is invoked with attempt in 1..maxRetries, and at most
\* maxRetries times
C27_State ==
  (opKind = "generic" /\ pc # "main") =>
    /\ Len(outcomes) <= maxRetries
    /\ pc \in {"op_generic", "retry_settled", "retry_pause"} =>
         (1 <= attempt /\ attempt <= maxRetries)
    /\ C27_InRetry => (1 <= attempt /\ attempt <= maxRetries + 1)

\* the counter starts at 1 and only ever grows by one
C27_Step ==
  /\ pc = "retry" => attempt' = 1
  /\ (pc # "retry" /\ attempt' # attempt) => attempt' = attempt + 1

\* C27: retry terminates when every invocation of operation terminates: for
\* every maxRetries and delayMs it returns or rejects after finitely many
\* invocations, and the attempt counter strictly increases from 1 to at
\* most maxRetries.
C27_RetryTerminates ==
  /\ <>(pc = "main_end")
  /\ []C27_State
  /\ [][C27_Step]_vars

C27_Witness ==
  /\ pc = "main_end" /\ opKind = "generic"
  /\ maxRetries = MaxRetriesIn
  /\ Len(outcomes) = MaxRetriesIn
  /\ Len(pauses) = MaxRetriesIn - 1
  /\ exc # None

====
